---------------------------- MODULE Spec2Model ----------------------------
(***************************************************************************)
(* A model of the fitex proxy-descriptor collector (src/main.py).          *)
(*                                                                         *)
(* The module holds several specifications over one set of variables:      *)
(*   SpecPipeline  ConfigProcessor.process / get_results                   *)
(*   SpecProbe     the _worker tasks of ConfigProcessor._test_connectivity *)
(*   SpecDns       the concurrent DNSResolver.resolve tasks                *)
(*   SpecTelegram  TelegramScraper.scrape_all                              *)
(*   SpecExtract   RawConfigCollector.find_all                             *)
(*   SpecCodec     V2RayParser.parse and the to_uri methods                *)
(*   SpecRun       V2RayCollectorApp.run                                   *)
(*   SpecEnrich    ConfigProcessor._enrich_data with its resolve tasks     *)
(*   SpecFetch     SubscriptionFetcher.fetch_all over given bodies, and    *)
(*                 the parsing and deduplication of what it collected      *)
(*                                                                         *)
(* A Python str is a sequence of one-character strings; a character        *)
(* outside ASCII is written by its code point ("U+2026").                  *)
(* Every specification gives the variables of the parts it does not run a  *)
(* fixed value and leaves them unchanged.  SpecPipeline keeps what         *)
(* _test_tcp returned in tcp_result; SpecRun starts the tasks of SpecDns   *)
(* and SpecProbe and steps them.                                           *)
(*                                                                         *)
(* Python's Optional[T] is the sequence <<>> (None) or <<v>> (the value v).*)
(* A Python object is its index in the list that created it, so that two   *)
(* containers holding the same object see the same mutation.               *)
(***************************************************************************)
EXTENDS Integers, Sequences, FiniteSets, TLC

VARIABLES
    \* ---- ConfigProcessor
    enable_test,       \* CONFIG.ENABLE_CONNECTIVITY_TEST
    parsed_configs,    \* self.parsed_configs: the decoded objects, in processing order
    unique_configs,    \* self.unique_configs: dedup key -> object (index in parsed_configs)
    stage,             \* position in process() / get_results()
    shuffled,          \* get_results: the local list `configs` after random.shuffle
    results,           \* the list get_results returns
    \* ---- ConfigProcessor._test_connectivity, task by task
    wpc,               \* position of each _worker task
    sem,               \* free permits of the asyncio.Semaphore
    tcp_result,        \* what _test_tcp returned to each worker (None: not yet)
    \* ---- DNSResolver.resolve, task by task
    dpc,               \* position of each resolve task (one per host)
    dns_lock,          \* DNSResolver._lock: None, or the task that holds it
    dns_cache,         \* DNSResolver._cache
    dns_found,         \* the local `ip` of a task after getaddrinfo
    dns_result,        \* what resolve returned to each task
    \* ---- TelegramScraper
    tg_pc,             \* position of scrape_all
    tg_next,           \* scrape_all: index of the first channel of the next batch
    tg_batch,          \* the channels of the batch being gathered
    tpc,               \* position of each _scrape_channel_with_retry task
    tg_log,            \* per channel, the outcome of each GET it issued
    tg_res,            \* per channel, what _scrape_channel_with_retry returned
    successful_channels,
    failed_channels,
    configs_by_channel,
    \* ---- RawConfigCollector.find_all
    text_content,      \* the text handed to find_all
    all_matches,       \* the dict find_all returns (None before the call)
    \* ---- V2RayParser.parse and to_uri
    raw_uri,           \* the token handed to V2RayParser.parse
    decoded,           \* what parse returned for raw_uri
    encoded,           \* to_uri() of the decoded object
    redecoded,         \* what parse returned for the encoded URI
    codec_pc,          \* position of the decode / encode / decode run
    \* ---- V2RayCollectorApp.run
    run_pc,            \* position in run()
    run_end,           \* how run() ended, "running" before that
    data_files,        \* files under CONFIG.DATA_DIR written since the run began
    out_files,         \* files under CONFIG.OUTPUT_DIR written since the run began
    sub_links,         \* the list _get_subscription_links returned
    found,             \* the sources whose text held a token
    http_result,       \* per subscription link, what its fetch met and returned
    \* ---- SubscriptionFetcher.fetch_all over given bodies, and the dedup of process
    fetch_pc,          \* position: the tasks run, or process has deduplicated
    link_body,         \* per link, the text AsyncHttpClient.get returns for it
    link_content,      \* per link, what _fetch_link returned (None: task not completed)
    total_configs_by_type,  \* self.total_configs_by_type, a dict in insertion order
    fetched_unique     \* unique_configs of the processor fed with the fetched tokens

pipeVars == <<enable_test, parsed_configs, unique_configs, stage, shuffled, results>>
probeVars == <<wpc, sem, tcp_result>>
dnsVars == <<dpc, dns_lock, dns_cache, dns_found, dns_result>>
tgVars == <<tg_pc, tg_next, tg_batch, tpc, tg_log, tg_res, successful_channels,
            failed_channels, configs_by_channel>>

exVars == <<text_content, all_matches>>
codecVars == <<raw_uri, decoded, encoded, redecoded, codec_pc>>

runVars == <<run_pc, run_end, data_files, out_files, sub_links, found, http_result>>
fetchVars == <<fetch_pc, link_body, link_content, total_configs_by_type, fetched_unique>>

vars == <<pipeVars, probeVars, dnsVars, tgVars, exVars, codecVars, runVars, fetchVars>>

\* The variables outside each part.
notPipe == <<probeVars, dnsVars, tgVars, exVars, codecVars, runVars, fetchVars>>
notProbe == <<pipeVars, dnsVars, tgVars, exVars, codecVars, runVars, fetchVars>>
notDns == <<pipeVars, probeVars, tgVars, exVars, codecVars, runVars, fetchVars>>
notTg == <<pipeVars, probeVars, dnsVars, exVars, codecVars, runVars, fetchVars>>
notEx == <<pipeVars, probeVars, dnsVars, tgVars, codecVars, runVars, fetchVars>>
notFetch == <<pipeVars, probeVars, dnsVars, tgVars, exVars, codecVars, runVars>>
notCodec == <<pipeVars, probeVars, dnsVars, tgVars, exVars, runVars, fetchVars>>

None == <<>>
Some(v) == <<v>>

(***************************************************************************)
(* Bounds of the model.                                                    *)
(***************************************************************************)
MaxParsed == 4

\* CONFIG.MAX_CONNECTIVITY_TESTS (2500 in the source), scaled to the model.
MAX_CONNECTIVITY_TESTS == 3

(***************************************************************************)
(* The parts at rest.                                                      *)
(***************************************************************************)
IdleProbe ==
    /\ wpc = << >>
    /\ sem = 0
    /\ tcp_result = << >>

IdleDns ==
    /\ dpc = << >>
    /\ dns_lock = None
    /\ dns_cache = << >>
    /\ dns_found = << >>
    /\ dns_result = << >>

IdleTg ==
    /\ tg_pc = "idle"
    /\ tg_next = 0
    /\ tg_batch = {}
    /\ tpc = << >>
    /\ tg_log = << >>
    /\ tg_res = << >>
    /\ successful_channels = << >>
    /\ failed_channels = << >>
    /\ configs_by_channel = << >>


IdleEx ==
    /\ text_content = << >>
    /\ all_matches = None

\* What a call hands back: None, a record, or an exception on its way up.
ReturnNone == [kind |-> "none"]
Return(config) == [kind |-> "config", config |-> config]
Raise(exc) == [kind |-> "raise", exc |-> exc]

\* No call has been made yet.
Pending == [kind |-> "pending"]

IdleCodec ==
    /\ raw_uri = << >>
    /\ decoded = Pending
    /\ encoded = << >>
    /\ redecoded = Pending
    /\ codec_pc = "idle"

IdleRun ==
    /\ run_pc = "idle"
    /\ run_end = "running"
    /\ data_files = {}
    /\ out_files = {}
    /\ sub_links = << >>
    /\ found = {}
    /\ http_result = << >>

IdleFetch ==
    /\ fetch_pc = "idle"
    /\ link_body = << >>
    /\ link_content = << >>
    /\ total_configs_by_type = << >>
    /\ fetched_unique = None

(***************************************************************************)
(* BaseConfig and its decoded instances.                                   *)
(***************************************************************************)
BaseConfig(protocol, host, port, uuid, remarks, security, ping) ==
    [protocol |-> protocol, host |-> host, port |-> port, uuid |-> uuid,
     remarks |-> remarks, network |-> "tcp", security |-> security,
     source_type |-> IF protocol \in {"vmess", "shadowsocks"} THEN protocol ELSE "unknown",
     ping |-> ping, ip_address |-> None, country |-> "XX", asn_org |-> None]

\* Records the four decoders can return.  The first three are Shadowsocks
\* records whose key strings coincide: two of them are the same endpoint seen
\* twice (different remarks), the third has another host, port and password.
\* The VMess record carries a ping of its own: VmessConfig(**data) passes every
\* key of the JSON object to the model, "ping" included.
DecodedRecords ==
    { BaseConfig("shadowsocks", "h", 1, "2:u", "first", "none", None),
      BaseConfig("shadowsocks", "h", 1, "2:u", "second", "none", None),
      BaseConfig("shadowsocks", "h:1", 2, "u", "third", "none", None),
      BaseConfig("vless", "1.2.3.4", 443, "u", "fourth", "tls", None),
      BaseConfig("vless", "g", 443, "u", "fifth", "reality", None),
      BaseConfig("vmess", "g", 443, "u", "sixth", "none", Some(7)) }

get_deduplication_key(c) ==
    c.protocol \o ":" \o c.host \o ":" \o ToString(c.port) \o ":" \o c.uuid

\* The identity of a record as the data model states it.
IdentityOf(c) == <<c.protocol, c.host, c.port, c.uuid>>

\* The sequences of at most n pairwise different elements of S.
SeqsUpTo(S, n) ==
    { q \in UNION { [1..k -> S] : k \in 0..n } :
        \A a, b \in DOMAIN q : q[a] = q[b] => a = b }


Range(f) == { f[x] : x \in DOMAIN f }

(***************************************************************************)
(* ConfigProcessor.process: deduplication.                                 *)
(***************************************************************************)
\* for c in self.parsed_configs: self.unique_configs[key(c)] = c
\* The dict after the first n objects of the list have been stored.
RECURSIVE DedupInsert(_, _)
DedupInsert(configs, n) ==
    IF n = 0 THEN << >>
    ELSE LET before == DedupInsert(configs, n - 1)
             k == get_deduplication_key(configs[n])
         IN  [x \in DOMAIN before \cup {k} |-> IF x = k THEN n ELSE before[x]]

\* A dedup that keeps the object stored first under a key.
DedupKeepFirst(configs) ==
    LET keys == { get_deduplication_key(configs[i]) : i \in 1..Len(configs) }
    IN  [k \in keys |->
            CHOOSE i \in 1..Len(configs) :
                /\ get_deduplication_key(configs[i]) = k
                /\ \A j \in 1..(i - 1) : get_deduplication_key(configs[j]) # k]

DedupMap(configs) == DedupInsert(configs, Len(configs))

Dedup ==
    /\ stage = "parsed"
    /\ unique_configs' = DedupMap(parsed_configs)
    /\ stage' = "deduped"
    /\ UNCHANGED <<enable_test, parsed_configs, shuffled, results>>
    /\ UNCHANGED notPipe

(***************************************************************************)
(* ConfigProcessor.process: sampling before enrichment.                    *)
(***************************************************************************)
\* A test for sampling that ignores the switch of the connectivity test.
ShouldSampleAlways(enabled, n) == n > MAX_CONNECTIVITY_TESTS

ShouldSample(enabled, n) == enabled /\ n > MAX_CONNECTIVITY_TESTS

\* A sampling that may return fewer keys than asked for.
SampleAtMost(keys) ==
    { S \in SUBSET keys : Cardinality(S) <= MAX_CONNECTIVITY_TESTS /\ S # {} }

\* random.sample(list(keys), MAX_CONNECTIVITY_TESTS): every choice of that many
\* distinct keys.
SampleKeys(keys) ==
    { S \in SUBSET keys : Cardinality(S) = MAX_CONNECTIVITY_TESTS }

Sample ==
    /\ stage = "deduped"
    /\ IF ShouldSample(enable_test, Cardinality(DOMAIN unique_configs))
       THEN \E sampled_keys \in SampleKeys(DOMAIN unique_configs) :
                unique_configs' = [k \in sampled_keys |-> unique_configs[k]]
       ELSE UNCHANGED unique_configs
    /\ stage' = "sampled"
    /\ UNCHANGED <<enable_test, parsed_configs, shuffled, results>>
    /\ UNCHANGED notPipe

(***************************************************************************)
(* ConfigProcessor._enrich_data, with DNSResolver.resolve and              *)
(* Geolocation.get_info seen from the pipeline.                            *)
(***************************************************************************)
\* is_ip_address over the hosts of the model.
is_ip_address(host) == host \in {"1.2.3.4"}

\* The address a forward lookup of the host returns when it succeeds.
DnsAnswer(host) == IF host = "g" THEN "5.6.7.8" ELSE "10.0.0.1"

\* DNSResolver.resolve: the host itself when it is a literal address, else the
\* looked-up address, or None when the lookup fails.
ResolveOutcomes(host) ==
    IF is_ip_address(host) THEN {Some(host)} ELSE {None, Some(DnsAnswer(host))}

\* Geolocation.get_info: (country, asn organization); ("XX", None) when the
\* address is not in the database.
get_info(ip) ==
    IF ip = "1.2.3.4" THEN <<"DE", Some("Hetzner")>>
    ELSE IF ip = "5.6.7.8" THEN <<"US", None>>
    ELSE <<"XX", None>>

\* An enrichment that puts the resolved address in the place of the host.
EnrichOneRewriteHost(c, dns_map) ==
    LET ip == dns_map[c.host]
    IN  IF ip # None
        THEN [c EXCEPT !.host = ip[1],
                       !.ip_address = ip,
                       !.country = get_info(ip[1])[1],
                       !.asn_org = get_info(ip[1])[2]]
        ELSE [c EXCEPT !.ip_address = ip]

EnrichOne(c, dns_map) ==
    LET ip == dns_map[c.host]
    IN  IF ip # None
        THEN [c EXCEPT !.ip_address = ip,
                       !.country = get_info(ip[1])[1],
                       !.asn_org = get_info(ip[1])[2]]
        ELSE [c EXCEPT !.ip_address = ip]

\* An enrichment that drops the objects whose host did not resolve.
EnrichDataDropUnresolved ==
    /\ stage = "sampled"
    /\ LET hosts == { parsed_configs[i].host : i \in Range(unique_configs) }
       IN  \E dns_map \in [hosts -> UNION { ResolveOutcomes(h) : h \in hosts }] :
              /\ \A h \in hosts : dns_map[h] \in ResolveOutcomes(h)
              /\ dns_result' = dns_map
              /\ parsed_configs' =
                    [i \in DOMAIN parsed_configs |->
                        IF i \in Range(unique_configs)
                        THEN EnrichOne(parsed_configs[i], dns_map)
                        ELSE parsed_configs[i]]
              /\ unique_configs' =
                    [k \in { x \in DOMAIN unique_configs :
                                dns_map[parsed_configs[unique_configs[x]].host] # None }
                        |-> unique_configs[k]]
    /\ stage' = "enriched"
    /\ UNCHANGED <<enable_test, shuffled, results>>
    /\ UNCHANGED <<dpc, dns_lock, dns_cache, dns_found>>
    /\ UNCHANGED <<probeVars, tgVars, exVars, codecVars, runVars, fetchVars>>

\* The hosts of every decoded object.
HostsOfAllDecoded == { parsed_configs[i].host : i \in DOMAIN parsed_configs }

\* hosts = {c.host for c in self.unique_configs.values()}
HostsToResolve == { parsed_configs[i].host : i \in Range(unique_configs) }

\* dns_map, the result of resolve for each host, is kept in dns_result.
EnrichData ==
    /\ stage = "sampled"
    /\ LET hosts == HostsToResolve
       IN  \E dns_map \in [hosts -> UNION { ResolveOutcomes(h) : h \in hosts }] :
              /\ \A h \in hosts : dns_map[h] \in ResolveOutcomes(h)
              /\ dns_result' = dns_map
              /\ parsed_configs' =
                    [i \in DOMAIN parsed_configs |->
                        IF i \in Range(unique_configs)
                        THEN EnrichOne(parsed_configs[i], dns_map)
                        ELSE parsed_configs[i]]
    /\ stage' = "enriched"
    /\ UNCHANGED <<enable_test, unique_configs, shuffled, results>>
    /\ UNCHANGED <<dpc, dns_lock, dns_cache, dns_found>>
    /\ UNCHANGED <<probeVars, tgVars, exVars, codecVars, runVars, fetchVars>>

(***************************************************************************)
(* ConfigProcessor._test_connectivity, with _test_tcp seen from the        *)
(* pipeline: one result per probed object, kept in tcp_result under the    *)
(* object's position in parsed_configs.                                    *)
(***************************************************************************)
\* What _test_tcp returns when the connect failed or timed out.
PING_FAILED == 9999
\* _worker stores the result only below this value.
PING_LIMIT == 2000

\* Results of _test_tcp: elapsed milliseconds of a connect that succeeded
\* within CONNECTIVITY_TEST_TIMEOUT (2.5 s), or PING_FAILED.
ProbeResults == {0, 150, 2100, PING_FAILED}

\* _worker: if ping < 2000: c.ping = ping
WorkerStore(c, ping) == IF ping < PING_LIMIT THEN [c EXCEPT !.ping = Some(ping)] ELSE c

\* A filter that keeps every object.
KeepAll(c) == TRUE

\* The truth value of c.ping in `if v.ping`: None and 0 are false.
PingTruthy(c) == c.ping # None /\ c.ping[1] # 0

TestConnectivity ==
    /\ stage = "enriched"
    /\ enable_test
    /\ \E probe \in [Range(unique_configs) -> ProbeResults] :
          LET tested == [i \in DOMAIN parsed_configs |->
                            IF i \in Range(unique_configs)
                            THEN WorkerStore(parsed_configs[i], probe[i])
                            ELSE parsed_configs[i]]
              kept == { k \in DOMAIN unique_configs : PingTruthy(tested[unique_configs[k]]) }
          IN  /\ parsed_configs' = tested
              /\ unique_configs' = [k \in kept |-> unique_configs[k]]
              /\ tcp_result' = [i \in Range(unique_configs) |-> Some(probe[i])]
    /\ stage' = "tested"
    /\ UNCHANGED <<enable_test, shuffled, results>>
    /\ UNCHANGED <<wpc, sem, dnsVars, tgVars, exVars, codecVars, runVars, fetchVars>>

(***************************************************************************)
(* ConfigProcessor._format_remarks.                                        *)
(***************************************************************************)
ProtoFull(protocol) ==
    CASE protocol = "vmess" -> "VMESS"
      [] protocol = "vless" -> "VLESS"
      [] protocol = "trojan" -> "TROJAN"
      [] protocol = "shadowsocks" -> "SHADOWSOCKS"
      [] protocol = "hysteria2" -> "HYSTERIA2"
      [] OTHER -> protocol

\* str.upper over the words of the model.
Upper(w) ==
    CASE w = "tcp" -> "TCP"
      [] w = "ws" -> "WS"
      [] w = "reality" -> "REALITY"
      [] OTHER -> w

SecurityLabel(c) ==
    IF c.source_type = "reality" THEN "RLT"
    ELSE IF c.security = "tls" THEN "TLS"
    ELSE IF c.security = "xtls" THEN "XTLS"
    ELSE IF c.security = "none" \/ c.security = "" THEN "NTLS"
    ELSE Upper(c.security)

\* COUNTRY_CODE_TO_FLAG.get(country, white flag); the flag glyphs are written
\* by name.
Flag(country) ==
    IF country \in {"DE", "US"} THEN "flag_" \o country ELSE "flag_white"

\* f"{country} {flag} | {proto}-{net}-{sec}{asn_str} | {ip_str}"
Remarks(c, sec) ==
    LET net == Upper(IF c.network = "" THEN "tcp" ELSE c.network)
        ip_str == IF c.ip_address # None THEN c.ip_address[1] ELSE "N/A"
        asn_str == IF c.asn_org # None /\ c.asn_org # Some("")
                   THEN " - " \o c.asn_org[1] ELSE ""
    IN  c.country \o " " \o Flag(c.country) \o " | " \o ProtoFull(c.protocol) \o "-"
        \o net \o "-" \o sec \o asn_str \o " | " \o ip_str

FormattedRemarks(c) == Remarks(c, SecurityLabel(c))

FormatRemarks ==
    /\ \/ stage = "tested"
       \/ stage = "enriched" /\ ~enable_test
    /\ parsed_configs' =
          [i \in DOMAIN parsed_configs |->
              IF i \in Range(unique_configs)
              THEN [parsed_configs[i] EXCEPT !.remarks = FormattedRemarks(parsed_configs[i])]
              ELSE parsed_configs[i]]
    /\ stage' = "processed"
    /\ UNCHANGED <<enable_test, unique_configs, shuffled, results>>
    /\ UNCHANGED notPipe

(***************************************************************************)
(* ConfigProcessor.get_results.                                            *)
(***************************************************************************)
\* The key of the sort for a missing ping.
PING_MISSING == 999999

\* key=lambda x: x.ping if x.ping is not None else 999999
SortKey(c) == IF c.ping # None THEN c.ping[1] ELSE PING_MISSING

\* random.shuffle: every order of the objects.
Shuffles(S) ==
    { p \in [1..Cardinality(S) -> S] : \A a, b \in 1..Cardinality(S) : p[a] = p[b] => a = b }

\* One step of a stable insertion: x goes behind every element whose key is
\* not greater than its own.
RECURSIVE InsertStable(_, _, _)
InsertStable(sorted, x, objs) ==
    IF sorted = << >> THEN <<x>>
    ELSE IF SortKey(objs[Head(sorted)]) <= SortKey(objs[x])
         THEN <<Head(sorted)>> \o InsertStable(Tail(sorted), x, objs)
         ELSE <<x>> \o sorted

RECURSIVE SortFrom(_, _, _)
SortFrom(done, rest, objs) ==
    IF rest = << >> THEN done
    ELSE SortFrom(InsertStable(done, Head(rest), objs), Tail(rest), objs)

\* A sort that puts an element before the elements of equal key.
RECURSIVE InsertBeforeEqual(_, _, _)
InsertBeforeEqual(sorted, x, objs) ==
    IF sorted = << >> THEN <<x>>
    ELSE IF SortKey(objs[Head(sorted)]) < SortKey(objs[x])
         THEN <<Head(sorted)>> \o InsertBeforeEqual(Tail(sorted), x, objs)
         ELSE <<x>> \o sorted

RECURSIVE UnstableFrom(_, _, _)
UnstableFrom(done, rest, objs) ==
    IF rest = << >> THEN done
    ELSE UnstableFrom(InsertBeforeEqual(done, Head(rest), objs), Tail(rest), objs)

SortedUnstable(configs, objs) == UnstableFrom(<< >>, configs, objs)

\* sorted(configs, key=...): Python's sort is stable.
Sorted(configs, objs) == SortFrom(<< >>, configs, objs)

GetResults ==
    /\ stage = "processed"
    /\ \E configs \in Shuffles(Range(unique_configs)) :
          /\ shuffled' = configs
          /\ results' = IF enable_test THEN Sorted(configs, parsed_configs) ELSE configs
    /\ stage' = "done"
    /\ UNCHANGED <<enable_test, parsed_configs, unique_configs>>
    /\ UNCHANGED notPipe

(***************************************************************************)
(* The pipeline's specification.                                           *)
(***************************************************************************)
\* The pipeline before it runs: the value its variables have in the
\* specifications of the other parts.
IdlePipeline ==
    /\ enable_test = FALSE
    /\ parsed_configs = << >>
    /\ unique_configs = << >>
    /\ stage = "idle"
    /\ shuffled = << >>
    /\ results = << >>

InitPipeline ==
    /\ IdleProbe /\ IdleDns /\ IdleTg /\ IdleEx /\ IdleCodec /\ IdleRun /\ IdleFetch
    /\ enable_test \in BOOLEAN
    /\ parsed_configs \in SeqsUpTo(DecodedRecords, MaxParsed)
    /\ unique_configs = << >>
    /\ stage = "parsed"
    /\ shuffled = << >>
    /\ results = << >>

NextPipeline ==
    \/ Dedup
    \/ Sample
    \/ EnrichData
    \/ TestConnectivity
    \/ FormatRemarks
    \/ GetResults

SpecPipeline == InitPipeline /\ [][NextPipeline]_vars

(***************************************************************************)
(* Claims about the pipeline (checked under SpecPipeline).                 *)
(***************************************************************************)
Obj(i) == parsed_configs[i]

\* C1: after the dedup step the map holds at most one object per
\* (protocol, host, port, identifier), and the object it holds for such an
\* identity is the one processed last among the decoded objects with that
\* identity: a whole object of the list, never a merge of two.
C1_DedupLastWins ==
    stage = "deduped" =>
        /\ \A k1, k2 \in DOMAIN unique_configs :
              IdentityOf(Obj(unique_configs[k1])) = IdentityOf(Obj(unique_configs[k2]))
                  => k1 = k2
        /\ \A k \in DOMAIN unique_configs :
              /\ unique_configs[k] \in 1..Len(parsed_configs)
              /\ \A j \in 1..Len(parsed_configs) :
                    IdentityOf(Obj(j)) = IdentityOf(Obj(unique_configs[k]))
                        => j <= unique_configs[k]

\* Two objects with the same identity and different remarks were decoded, and
\* the later one is in the map.
C1_Witness ==
    /\ stage = "deduped"
    /\ \E i, j \in 1..Len(parsed_configs) :
          /\ i < j
          /\ IdentityOf(Obj(i)) = IdentityOf(Obj(j))
          /\ Obj(i).remarks # Obj(j).remarks
          /\ j \in Range(unique_configs)

PositionIn(seq, x) == CHOOSE n \in 1..Len(seq) : seq[n] = x

\* C5: with connectivity testing enabled, the returned list is non-decreasing
\* by ping whatever order the shuffle produced, it holds the shuffled objects,
\* and objects of equal ping are in the order the shuffle gave them.
C5_SortedStable ==
    (stage = "done" /\ enable_test) =>
        /\ Len(results) = Len(shuffled)
        /\ Range(results) = Range(shuffled)
        /\ \A a, b \in 1..Len(results) :
              a < b =>
                 /\ Obj(results[a]).ping # None
                 /\ Obj(results[b]).ping # None
                 /\ Obj(results[a]).ping[1] <= Obj(results[b]).ping[1]
                 /\ Obj(results[a]).ping[1] = Obj(results[b]).ping[1]
                       => PositionIn(shuffled, results[a]) < PositionIn(shuffled, results[b])

\* The sort moved an object, and two objects of the list have the same ping.
C5_Witness ==
    /\ stage = "done"
    /\ enable_test
    /\ results # shuffled
    /\ \E a, b \in 1..Len(results) :
          a < b /\ Obj(results[a]).ping = Obj(results[b]).ping

\* C6: after the sampling step, if testing is enabled and the deduped map had
\* more than MAX_CONNECTIVITY_TESTS keys, the map has exactly that many keys,
\* each a key of the deduped map with the object it had there; in every other
\* case the map is the deduped map.
C6_SamplingExact ==
    stage = "sampled" =>
        LET deduped == DedupMap(parsed_configs)
        IN  IF enable_test /\ Cardinality(DOMAIN deduped) > MAX_CONNECTIVITY_TESTS
            THEN /\ Cardinality(DOMAIN unique_configs) = MAX_CONNECTIVITY_TESTS
                 /\ DOMAIN unique_configs \subseteq DOMAIN deduped
                 /\ \A k \in DOMAIN unique_configs : unique_configs[k] = deduped[k]
            ELSE unique_configs = deduped

\* Sampling applied: the deduped map was larger than the maximum.
C6_Witness ==
    /\ stage = "sampled"
    /\ enable_test
    /\ Cardinality(DOMAIN DedupMap(parsed_configs)) > MAX_CONNECTIVITY_TESTS
    /\ Cardinality(DOMAIN unique_configs) = MAX_CONNECTIVITY_TESTS

(***************************************************************************)
(* ConfigProcessor._test_connectivity, task by task: one _worker per       *)
(* candidate, all gathered, each inside `async with sem`.                  *)
(*   waiting     the task waits for a permit                               *)
(*   connecting  inside wait_for(open_connection(...))                     *)
(*   closing     connected; inside writer.wait_closed()                    *)
(*   returned    _test_tcp has returned; the permit is still held          *)
(*   done        the ping is stored and the permit given back              *)
(***************************************************************************)
\* Candidates handed to _test_connectivity.
NumCandidates == 4

\* asyncio.Semaphore(100), scaled to the model.
SEM_PERMITS == 2

Candidates == 1..NumCandidates

\* Elapsed milliseconds a successful connect can measure.
ConnectTimes == {0, 150, 2100}

\* A worker that starts its probe without taking a permit.
WorkerAcquireNoSem(c) ==
    /\ c \in DOMAIN wpc
    /\ wpc[c] = "waiting"
    /\ wpc' = [wpc EXCEPT ![c] = "connecting"]
    /\ UNCHANGED <<sem, tcp_result>>
    /\ UNCHANGED notProbe

\* async with sem: a permit is taken when one is free.
WorkerAcquire(c) ==
    /\ c \in DOMAIN wpc
    /\ wpc[c] = "waiting"
    /\ sem > 0
    /\ sem' = sem - 1
    /\ wpc' = [wpc EXCEPT ![c] = "connecting"]
    /\ UNCHANGED tcp_result
    /\ UNCHANGED notProbe

\* open_connection succeeded within the timeout: ping = elapsed milliseconds.
ConnectSucceeds(c) ==
    /\ c \in DOMAIN wpc
    /\ wpc[c] = "connecting"
    /\ \E ping \in ConnectTimes : tcp_result' = [tcp_result EXCEPT ![c] = Some(ping)]
    /\ wpc' = [wpc EXCEPT ![c] = "closing"]
    /\ UNCHANGED sem
    /\ UNCHANGED notProbe

\* open_connection raised (refused, unreachable) or wait_for timed out:
\* except: return 9999
ConnectFails(c) ==
    /\ c \in DOMAIN wpc
    /\ wpc[c] = "connecting"
    /\ tcp_result' = [tcp_result EXCEPT ![c] = Some(PING_FAILED)]
    /\ wpc' = [wpc EXCEPT ![c] = "returned"]
    /\ UNCHANGED sem
    /\ UNCHANGED notProbe

\* writer.wait_closed() returns, or raises and the bare except returns 9999.
WriterClosed(c) ==
    /\ c \in DOMAIN wpc
    /\ wpc[c] = "closing"
    /\ \/ UNCHANGED tcp_result
       \/ tcp_result' = [tcp_result EXCEPT ![c] = Some(PING_FAILED)]
    /\ wpc' = [wpc EXCEPT ![c] = "returned"]
    /\ UNCHANGED sem
    /\ UNCHANGED notProbe

\* The end of the `async with` block: the permit goes back.
WorkerRelease(c) ==
    /\ c \in DOMAIN wpc
    /\ wpc[c] = "returned"
    /\ sem' = sem + 1
    /\ wpc' = [wpc EXCEPT ![c] = "done"]
    /\ UNCHANGED tcp_result
    /\ UNCHANGED notProbe

InitProbe ==
    /\ IdlePipeline /\ IdleDns /\ IdleTg /\ IdleEx /\ IdleCodec /\ IdleRun /\ IdleFetch
    /\ wpc = [c \in Candidates |-> "waiting"]
    /\ sem = SEM_PERMITS
    /\ tcp_result = [c \in Candidates |-> None]

NextProbe ==
    \E c \in Candidates :
        \/ WorkerAcquire(c)
        \/ ConnectSucceeds(c)
        \/ ConnectFails(c)
        \/ WriterClosed(c)
        \/ WorkerRelease(c)

\* The event loop runs a task that can run, and every connect attempt ends
\* (wait_for bounds it by CONNECTIVITY_TEST_TIMEOUT).
SpecProbe == InitProbe /\ [][NextProbe]_vars /\ WF_vars(NextProbe)

\* TCP connect attempts in flight: tasks between taking the permit and the
\* return of _test_tcp.
InFlight == { c \in DOMAIN wpc : wpc[c] \in {"connecting", "closing"} }

\* C8: at every moment at most SEM_PERMITS connect attempts are in flight;
\* when all workers have ended every permit is back; and every candidate is
\* eventually probed.
C8_BoundedProbes ==
    /\ [](Cardinality(InFlight) <= SEM_PERMITS)
    /\ []((\A c \in DOMAIN wpc : wpc[c] = "done") => sem = SEM_PERMITS)
    /\ <>(\A c \in DOMAIN wpc : wpc[c] = "done" /\ tcp_result[c] # None)

\* The bound bites: every permit is taken by a probe in flight and a
\* candidate waits.
C8_Witness ==
    /\ Cardinality(InFlight) = SEM_PERMITS
    /\ sem = 0
    /\ \E c \in DOMAIN wpc : wpc[c] = "waiting"
    /\ \E c \in DOMAIN wpc : wpc[c] = "done"

(***************************************************************************)
(* DNSResolver.resolve, task by task.  _enrich_data gathers one resolve    *)
(* task per distinct host of the remaining objects; a task is named by its *)
(* host.                                                                   *)
(*   start    the task has not run yet                                     *)
(*   reading  inside the first `async with cls._lock` (cache lookup)       *)
(*   lookup   inside getaddrinfo                                           *)
(*   found    getaddrinfo returned; the task waits for the lock            *)
(*   writing  inside the second `async with cls._lock` (cache insert)      *)
(*   done     resolve has returned                                         *)
(***************************************************************************)
\* Hosts the remaining objects can have.
EnrichHosts == {"h", "h:1", "g", "1.2.3.4"}

\* if is_ip_address(host): return host
ResolveLiteral(h) ==
    /\ h \in DOMAIN dpc
    /\ dpc[h] = "start"
    /\ is_ip_address(h)
    /\ dns_result' = [dns_result EXCEPT ![h] = Some(h)]
    /\ dpc' = [dpc EXCEPT ![h] = "done"]
    /\ UNCHANGED <<dns_lock, dns_cache, dns_found>>
    /\ UNCHANGED notDns

\* A task that enters the cache lookup without waiting for the lock.
EnterReadNoLock(h) ==
    /\ h \in DOMAIN dpc
    /\ dpc[h] = "start"
    /\ ~is_ip_address(h)
    /\ dpc' = [dpc EXCEPT ![h] = "reading"]
    /\ UNCHANGED <<dns_lock, dns_cache, dns_found, dns_result>>
    /\ UNCHANGED notDns

\* async with cls._lock (line 569): entered when the lock is free.
EnterRead(h) ==
    /\ h \in DOMAIN dpc
    /\ dpc[h] = "start"
    /\ ~is_ip_address(h)
    /\ dns_lock = None
    /\ dns_lock' = Some(h)
    /\ dpc' = [dpc EXCEPT ![h] = "reading"]
    /\ UNCHANGED <<dns_cache, dns_found, dns_result>>
    /\ UNCHANGED notDns

\* if host in cls._cache: return cls._cache[host]; the lock is released on
\* the way out of the block either way.
ReadCache(h) ==
    /\ h \in DOMAIN dpc
    /\ dpc[h] = "reading"
    /\ IF h \in DOMAIN dns_cache
       THEN /\ dns_result' = [dns_result EXCEPT ![h] = Some(dns_cache[h])]
            /\ dpc' = [dpc EXCEPT ![h] = "done"]
       ELSE /\ dpc' = [dpc EXCEPT ![h] = "lookup"]
            /\ UNCHANGED dns_result
    /\ dns_lock' = IF dns_lock = Some(h) THEN None ELSE dns_lock
    /\ UNCHANGED <<dns_cache, dns_found>>
    /\ UNCHANGED notDns

\* getaddrinfo returned: ip = info[0][4][0]
LookupSucceeds(h) ==
    /\ h \in DOMAIN dpc
    /\ dpc[h] = "lookup"
    /\ dns_found' = [dns_found EXCEPT ![h] = Some(DnsAnswer(h))]
    /\ dpc' = [dpc EXCEPT ![h] = "found"]
    /\ UNCHANGED <<dns_lock, dns_cache, dns_result>>
    /\ UNCHANGED notDns

\* A resolve that starts over when getaddrinfo raised.
LookupFailsRetry(h) ==
    /\ h \in DOMAIN dpc
    /\ dpc[h] = "lookup"
    /\ dpc' = [dpc EXCEPT ![h] = "start"]
    /\ UNCHANGED <<dns_lock, dns_cache, dns_found, dns_result>>
    /\ UNCHANGED notDns

\* getaddrinfo raised: except: return None
LookupFails(h) ==
    /\ h \in DOMAIN dpc
    /\ dpc[h] = "lookup"
    /\ dns_result' = [dns_result EXCEPT ![h] = None]
    /\ dpc' = [dpc EXCEPT ![h] = "done"]
    /\ UNCHANGED <<dns_lock, dns_cache, dns_found>>
    /\ UNCHANGED notDns

\* async with cls._lock (line 575): entered when the lock is free.
EnterWrite(h) ==
    /\ h \in DOMAIN dpc
    /\ dpc[h] = "found"
    /\ dns_lock = None
    /\ dns_lock' = Some(h)
    /\ dpc' = [dpc EXCEPT ![h] = "writing"]
    /\ UNCHANGED <<dns_cache, dns_found, dns_result>>
    /\ UNCHANGED notDns

\* cls._cache[host] = ip; the lock is released; return ip
WriteCache(h) ==
    /\ h \in DOMAIN dpc
    /\ dpc[h] = "writing"
    /\ dns_cache' = [x \in DOMAIN dns_cache \cup {h} |->
                        IF x = h THEN dns_found[h][1] ELSE dns_cache[x]]
    /\ dns_lock' = IF dns_lock = Some(h) THEN None ELSE dns_lock
    /\ dns_result' = [dns_result EXCEPT ![h] = dns_found[h]]
    /\ dpc' = [dpc EXCEPT ![h] = "done"]
    /\ UNCHANGED dns_found
    /\ UNCHANGED notDns

\* One task per host of a non-empty set of hosts; the class-level cache is
\* empty and the lock free when the run starts.
InitDns ==
    /\ IdlePipeline /\ IdleProbe /\ IdleTg /\ IdleEx /\ IdleCodec /\ IdleRun /\ IdleFetch
    /\ \E hosts \in SUBSET EnrichHosts :
          /\ hosts # {}
          /\ dpc = [h \in hosts |-> "start"]
          /\ dns_found = [h \in hosts |-> None]
          /\ dns_result = [h \in hosts |-> None]
    /\ dns_lock = None
    /\ dns_cache = << >>

NextDns ==
    \E h \in EnrichHosts :
        \/ ResolveLiteral(h)
        \/ EnterRead(h)
        \/ ReadCache(h)
        \/ LookupSucceeds(h)
        \/ LookupFails(h)
        \/ EnterWrite(h)
        \/ WriteCache(h)

SpecDns == InitDns /\ [][NextDns]_vars

\* The tasks inside a cache lookup or a cache insert.
InCache == { h \in DOMAIN dpc : dpc[h] \in {"reading", "writing"} }

\* C9: a task that is inside the cache lookup or the cache insert holds the
\* resolver's lock, so at most one task is inside either at any moment.
C9_CacheUnderLock ==
    /\ \A h \in InCache : dns_lock = Some(h)
    /\ Cardinality(InCache) <= 1

\* A task is inside the cache insert while another task waits for the lock
\* with its own answer, and a third has already stored one.
C9_Witness ==
    /\ \E h \in DOMAIN dpc : dpc[h] = "writing" /\ dns_lock = Some(h)
    /\ \E h \in DOMAIN dpc : dpc[h] = "found"
    /\ DOMAIN dns_cache # {}

(***************************************************************************)
(* TelegramScraper.scrape_all and _scrape_channel_with_retry.  A channel   *)
(* is its index in self.channels.  Positions of a channel's task:          *)
(*   get     inside AsyncHttpClient.get (tg_log tells which attempt)       *)
(*   sleep   inside asyncio.sleep(2) after an unsuccessful attempt         *)
(*   returned                                                              *)
(* What a channel returns (tg_res): None, or Some(n), a dict of n tokens   *)
(* (n = 0: the empty dict).                                                *)
(***************************************************************************)
NumChannels == 3

\* batch_size = 15, scaled to the model.
BATCH_SIZE == 2

\* CONFIG.TELEGRAM_MESSAGE_LIMIT (75), scaled to the model.
TELEGRAM_MESSAGE_LIMIT == 2

\* CONFIG.MAX_CONFIGS_PER_CHANNEL (500), scaled to the model.
MAX_CONFIGS_PER_CHANNEL == 2

\* Message containers of one page, and tokens of one message text.
MaxPageMessages == 3
MaxMessageTokens == 2

Channels == 1..NumChannels

\* A page: for each message container, the tokens find_all returns for its
\* text (0 also for a container without a text div).
Pages == UNION { [1..k -> 0..MaxMessageTokens] : k \in 1..MaxPageMessages }

\* soup.find_all(..., limit=CONFIG.TELEGRAM_MESSAGE_LIMIT)
LimitedMessages(page) ==
    SubSeq(page, 1, IF Len(page) < TELEGRAM_MESSAGE_LIMIT THEN Len(page)
                    ELSE TELEGRAM_MESSAGE_LIMIT)

\* The loop over the messages: count after the messages from position n on,
\* starting with `count` tokens; the cap is tested after each message.
RECURSIVE Accumulate(_, _, _)
Accumulate(messages, n, count) ==
    IF n > Len(messages) THEN count
    ELSE LET after == count + messages[n]
         IN  IF after >= MAX_CONFIGS_PER_CHANNEL THEN after
             ELSE Accumulate(messages, n + 1, after)

\* What tg_log holds for an attempt that was unsuccessful.
Unsuccessful == "unsuccessful"

Attempt(ch) == Len(tg_log[ch]) + 1

\* for i in range(0, len(self.channels), batch_size): the batch's tasks are
\* created and gathered.
StartBatch ==
    /\ tg_pc = "loop"
    /\ tg_next <= NumChannels
    /\ tg_batch' = { ch \in Channels : tg_next <= ch /\ ch < tg_next + BATCH_SIZE }
    /\ tpc' = [ch \in Channels |->
                  IF tg_next <= ch /\ ch < tg_next + BATCH_SIZE THEN "get" ELSE tpc[ch]]
    /\ tg_pc' = "gathering"
    /\ UNCHANGED <<tg_next, tg_log, tg_res, successful_channels, failed_channels,
                   configs_by_channel>>
    /\ UNCHANGED notTg

\* The GET gave no page: a status other than 200, a request error (status 0)
\* or an empty body.  `status == 200 and html` is false: await asyncio.sleep(2).
GetFails(ch) ==
    /\ tpc[ch] = "get"
    /\ tg_log' = [tg_log EXCEPT ![ch] = Append(@, Unsuccessful)]
    /\ tpc' = [tpc EXCEPT ![ch] = "sleep"]
    /\ UNCHANGED <<tg_pc, tg_next, tg_batch, tg_res, successful_channels,
                   failed_channels, configs_by_channel>>
    /\ UNCHANGED notTg

\* Status 200 with a body, and an exception while the page is parsed or
\* scanned: except Exception: pass, then await asyncio.sleep(2).
GetParseError(ch) ==
    /\ tpc[ch] = "get"
    /\ tg_log' = [tg_log EXCEPT ![ch] = Append(@, Unsuccessful)]
    /\ tpc' = [tpc EXCEPT ![ch] = "sleep"]
    /\ UNCHANGED <<tg_pc, tg_next, tg_batch, tg_res, successful_channels,
                   failed_channels, configs_by_channel>>
    /\ UNCHANGED notTg

\* Status 200, the page parsed, no message container: if not messages: return {}
GetNoMessages(ch) ==
    /\ tpc[ch] = "get"
    /\ tg_log' = [tg_log EXCEPT ![ch] = Append(@, "no_messages")]
    /\ tg_res' = [tg_res EXCEPT ![ch] = Some(0)]
    /\ tpc' = [tpc EXCEPT ![ch] = "returned"]
    /\ UNCHANGED <<tg_pc, tg_next, tg_batch, successful_channels, failed_channels,
                   configs_by_channel>>
    /\ UNCHANGED notTg

\* Status 200, the page parsed, with message containers: return configs
GetMessages(ch) ==
    /\ tpc[ch] = "get"
    /\ \E page \in Pages :
          tg_res' = [tg_res EXCEPT ![ch] = Some(Accumulate(LimitedMessages(page), 1, 0))]
    /\ tg_log' = [tg_log EXCEPT ![ch] = Append(@, "messages")]
    /\ tpc' = [tpc EXCEPT ![ch] = "returned"]
    /\ UNCHANGED <<tg_pc, tg_next, tg_batch, successful_channels, failed_channels,
                   configs_by_channel>>
    /\ UNCHANGED notTg

\* A retry loop with a third pass.
WakeRetryAgain(ch) ==
    /\ tpc[ch] = "sleep"
    /\ IF Attempt(ch) <= 3
       THEN /\ tpc' = [tpc EXCEPT ![ch] = "get"]
            /\ UNCHANGED tg_res
       ELSE /\ tpc' = [tpc EXCEPT ![ch] = "returned"]
            /\ tg_res' = [tg_res EXCEPT ![ch] = None]
    /\ UNCHANGED <<tg_pc, tg_next, tg_batch, tg_log, successful_channels,
                   failed_channels, configs_by_channel>>
    /\ UNCHANGED notTg

\* The sleep ended: the second pass of `for _ in range(2)`, or return None.
Wake(ch) ==
    /\ tpc[ch] = "sleep"
    /\ IF Attempt(ch) <= 2
       THEN /\ tpc' = [tpc EXCEPT ![ch] = "get"]
            /\ UNCHANGED tg_res
       ELSE /\ tpc' = [tpc EXCEPT ![ch] = "returned"]
            /\ tg_res' = [tg_res EXCEPT ![ch] = None]
    /\ UNCHANGED <<tg_pc, tg_next, tg_batch, tg_log, successful_channels,
                   failed_channels, configs_by_channel>>
    /\ UNCHANGED notTg

\* A test of `res` against None only.
ResNotNone(res) == res # None

\* The truth value of `res`: None and the empty dict are false.
ResTruthy(res) == res # None /\ res[1] > 0

\* The loop over the gathered results, for the channels from `ch` on.
RECURSIVE CollectFrom(_, _, _, _)
CollectFrom(ch, succ, fail, stored) ==
    IF ch \notin tg_batch THEN <<succ, fail, stored>>
    ELSE IF ResTruthy(tg_res[ch])
         THEN IF tg_res[ch][1] > 0
              THEN CollectFrom(ch + 1, Append(succ, <<ch, tg_res[ch][1]>>), fail,
                               [x \in DOMAIN stored \cup {ch} |->
                                   IF x = ch THEN tg_res[ch][1] ELSE stored[x]])
              ELSE CollectFrom(ch + 1, succ, fail, stored)
         ELSE CollectFrom(ch + 1, succ, Append(fail, ch), stored)

\* gather has returned: every task of the batch has.
CollectBatch ==
    /\ tg_pc = "gathering"
    /\ \A ch \in tg_batch : tpc[ch] = "returned"
    /\ LET after == CollectFrom(tg_next, successful_channels, failed_channels,
                                configs_by_channel)
       IN  /\ successful_channels' = after[1]
           /\ failed_channels' = after[2]
           /\ configs_by_channel' = after[3]
    /\ tg_pc' = "pause"
    /\ UNCHANGED <<tg_next, tg_batch, tpc, tg_log, tg_res>>
    /\ UNCHANGED notTg

\* await asyncio.sleep(1), then the next pass of the loop.
NextBatch ==
    /\ tg_pc = "pause"
    /\ tg_next' = tg_next + BATCH_SIZE
    /\ tg_batch' = {}
    /\ tg_pc' = "loop"
    /\ UNCHANGED <<tpc, tg_log, tg_res, successful_channels, failed_channels,
                   configs_by_channel>>
    /\ UNCHANGED notTg

\* The loop is over: self._write_report()
WriteReport ==
    /\ tg_pc = "loop"
    /\ tg_next > NumChannels
    /\ tg_pc' = "done"
    /\ UNCHANGED <<tg_next, tg_batch, tpc, tg_log, tg_res, successful_channels,
                   failed_channels, configs_by_channel>>
    /\ UNCHANGED notTg

InitTelegram ==
    /\ IdlePipeline /\ IdleProbe /\ IdleDns /\ IdleEx /\ IdleCodec /\ IdleRun /\ IdleFetch
    /\ tg_pc = "loop"
    /\ tg_next = 1
    /\ tg_batch = {}
    /\ tpc = [ch \in Channels |-> "new"]
    /\ tg_log = [ch \in Channels |-> << >>]
    /\ tg_res = [ch \in Channels |-> None]
    /\ successful_channels = << >>
    /\ failed_channels = << >>
    /\ configs_by_channel = << >>

NextTelegram ==
    \/ StartBatch
    \/ \E ch \in Channels :
          \/ GetFails(ch)
          \/ GetParseError(ch)
          \/ GetNoMessages(ch)
          \/ GetMessages(ch)
          \/ Wake(ch)
    \/ CollectBatch
    \/ NextBatch
    \/ WriteReport

SpecTelegram == InitTelegram /\ [][NextTelegram]_vars

\* C10: when scrape_all has ended, a channel is in the failure list exactly
\* when it issued two GETs and both were unsuccessful; a channel whose page
\* came with status 200 and was parsed is not in the list.
C10_FailedIffBothAttemptsFailed ==
    tg_pc = "done" =>
        \A ch \in Channels :
            (\E n \in 1..Len(failed_channels) : failed_channels[n] = ch)
                <=> /\ Len(tg_log[ch]) = 2
                    /\ tg_log[ch][1] = Unsuccessful
                    /\ tg_log[ch][2] = Unsuccessful

(***************************************************************************)
(* Characters and strings.                                                 *)
(***************************************************************************)
UpperLetters == <<"A", "B", "C", "D", "E", "F", "G", "H", "I", "J", "K", "L", "M", "N", "O", "P", "Q", "R", "S", "T", "U", "V", "W", "X", "Y", "Z">>
LowerLetters == <<"a", "b", "c", "d", "e", "f", "g", "h", "i", "j", "k", "l", "m", "n", "o", "p", "q", "r", "s", "t", "u", "v", "w", "x", "y", "z">>
Letters == Range(UpperLetters) \cup Range(LowerLetters)
Digits == {"0", "1", "2", "3", "4", "5", "6", "7", "8", "9"}

\* str.lower of one character.
lower(c) ==
    IF c \in Range(UpperLetters)
    THEN LowerLetters[CHOOSE i \in DOMAIN UpperLetters : UpperLetters[i] = c]
    ELSE c

\* \s of the re module.
IsSpace(c) == c \in {" ", "\t", "\n", "\r", "\f"}

\* \w of the re module; U+00C4 is a letter.
IsWordChar(c) == c \in Letters \cup Digits \cup {"_", "U+00C4"}

\* The literal lit stands in s at position p.
HasAt(s, p, lit) ==
    /\ p + Len(lit) - 1 <= Len(s)
    /\ \A i \in 1..Len(lit) : s[p + i - 1] = lit[i]

\* The same under re.IGNORECASE.
MatchesAt(s, p, lit) ==
    /\ p + Len(lit) - 1 <= Len(s)
    /\ \A i \in 1..Len(lit) : lower(s[p + i - 1]) = lower(lit[i])

\* `lit in s`
Contains(s, lit) == \E p \in 1..Len(s) : HasAt(s, p, lit)

\* The position of the first (last) c in s, 0 when there is none.
IndexOf(s, c) ==
    IF \E p \in 1..Len(s) : s[p] = c
    THEN CHOOSE p \in 1..Len(s) : s[p] = c /\ \A r \in 1..(p - 1) : s[r] # c
    ELSE 0

LastIndexOf(s, c) ==
    IF \E p \in 1..Len(s) : s[p] = c
    THEN CHOOSE p \in 1..Len(s) : s[p] = c /\ \A r \in (p + 1)..Len(s) : s[r] # c
    ELSE 0

(***************************************************************************)
(* RawConfigCollector.                                                     *)
(***************************************************************************)
\* The keys of PATTERNS, in the order of the dict.
PatternNames == <<"ss", "vmess", "vless", "reality", "hysteria2">>

\* [^\s<>#]
TokenChar(c) == ~IsSpace(c) /\ c \notin {"<", ">", "#"}

\* [\s<>#], the lookahead that ends the "vless" pattern.
Delimiter(c) == IsSpace(c) \/ c \in {"<", ">", "#"}

\* The end of the longest run of [^\s<>#] from p: the first position that
\* holds no such character.
RECURSIVE RunEnd(_, _)
RunEnd(text, p) ==
    IF p > Len(text) \/ ~TokenChar(text[p]) THEN p ELSE RunEnd(text, p + 1)

\* The end of the longest run of (?!=reality)[^\s<>#] from p.
RECURSIVE PlainRunEnd(_, _)
PlainRunEnd(text, p) ==
    IF p > Len(text) \/ ~TokenChar(text[p]) \/ MatchesAt(text, p, <<"=", "r", "e", "a", "l", "i", "t", "y">>)
    THEN p
    ELSE PlainRunEnd(text, p + 1)

\* (prefix[^\s<>#]+): the position behind a match that starts at p, 0 when
\* the pattern does not match there.
MatchPrefixed(text, p, prefix) ==
    IF MatchesAt(text, p, prefix)
    THEN LET e == RunEnd(text, p + Len(prefix))
         IN  IF e > p + Len(prefix) THEN e ELSE 0
    ELSE 0

\* (vless://(?:(?!=reality)[^\s<>#])+(?=[\s<>#])): the greedy run must be
\* followed by a delimiter; giving characters back never helps, for the
\* character then looked at is one of the run.
MatchVless(text, p) ==
    IF MatchesAt(text, p, <<"v", "l", "e", "s", "s", ":", "/", "/">>)
    THEN LET e == PlainRunEnd(text, p + 8)
         IN  IF e > p + 8 /\ e <= Len(text) /\ Delimiter(text[e]) THEN e ELSE 0
    ELSE 0

\* (vless://[^\s<>#]+?security=reality[^\s<>#]*): the marker stands in the
\* run behind at least one character, and the match takes the whole run.
MatchReality(text, p) ==
    IF MatchesAt(text, p, <<"v", "l", "e", "s", "s", ":", "/", "/">>)
    THEN LET e == RunEnd(text, p + 8)
         IN  IF \E k \in (p + 9)..(e - 16) : MatchesAt(text, k, <<"s", "e", "c", "u", "r", "i", "t", "y", "=", "r", "e", "a", "l", "i", "t", "y">>)
             THEN e ELSE 0
    ELSE 0

\* ((?:hy2|hysteria2)://[^\s<>#]+)
MatchHysteria2(text, p) ==
    IF MatchPrefixed(text, p, <<"h", "y", "2", ":", "/", "/">>) > 0
    THEN MatchPrefixed(text, p, <<"h", "y", "2", ":", "/", "/">>)
    ELSE MatchPrefixed(text, p, <<"h", "y", "s", "t", "e", "r", "i", "a", "2", ":", "/", "/">>)

MatchPattern(name, text, p) ==
    CASE name = "ss" -> MatchPrefixed(text, p, <<"s", "s", ":", "/", "/">>)
      [] name = "vmess" -> MatchPrefixed(text, p, <<"v", "m", "e", "s", "s", ":", "/", "/">>)
      [] name = "vless" -> MatchVless(text, p)
      [] name = "reality" -> MatchReality(text, p)
      [] name = "hysteria2" -> MatchHysteria2(text, p)

\* (?<![\w-])
LookbehindOk(text, p) == p = 1 \/ ~(IsWordChar(text[p - 1]) \/ text[p - 1] = "-")

\* re.findall(full_pattern, text, re.IGNORECASE) from position p on: the
\* matches from left to right, none overlapping another.
RECURSIVE FindAllFrom(_, _, _)
FindAllFrom(name, text, p) ==
    IF p > Len(text) THEN << >>
    ELSE LET e == IF LookbehindOk(text, p) THEN MatchPattern(name, text, p) ELSE 0
         IN  IF e > 0
             THEN <<SubSeq(text, p, e - 1)>> \o FindAllFrom(name, text, e)
             ELSE FindAllFrom(name, text, p + 1)

\* The string literal of line 443, as the file holds it: the three
\* characters U+201A, U+00C4, U+00B6.
TruncationMarker == <<"U+201A", "U+00C4", "U+00B6">>

\* The horizontal ellipsis.
Ellipsis == "U+2026"

\* `"..." not in m` of line 443 (negated): the match is dropped.
Truncated(match) == Contains(match, TruncationMarker)

\* re.sub(r"#[^#]*$", "", m)
StripFragment(match) ==
    IF LastIndexOf(match, "#") > 0
    THEN SubSeq(match, 1, LastIndexOf(match, "#") - 1)
    ELSE match

RECURSIVE CleanMatches(_)
CleanMatches(matches) ==
    IF matches = << >> THEN << >>
    ELSE IF Truncated(Head(matches)) THEN CleanMatches(Tail(matches))
         ELSE <<StripFragment(Head(matches))>> \o CleanMatches(Tail(matches))

\* find_all: the cleaned matches of every pattern that has some.
find_all(text) ==
    LET cleaned == [n \in Range(PatternNames) |-> CleanMatches(FindAllFrom(n, text, 1))]
    IN  [n \in { x \in Range(PatternNames) : cleaned[x] # << >> } |-> cleaned[n]]

(***************************************************************************)
(* The texts find_all is applied to: up to MaxSegments pieces.             *)
(***************************************************************************)
MaxSegments == 3

Segments ==
    { <<"v", "l", "e", "s", "s", ":", "/", "/">>, <<"V", "L", "E", "S", "S", ":", "/", "/">>, <<"s", "s", ":", "/", "/">>, <<"v", "m", "e", "s", "s", ":", "/", "/">>, <<"h", "y", "2", ":", "/", "/">>,
      <<"a", "b">>, <<"?", "s", "e", "c", "u", "r", "i", "t", "y", "=", "r", "e", "a", "l", "i", "t", "y">>, <<"#", "f">>, <<" ">>, <<"-">>,
      <<Ellipsis>>, TruncationMarker, <<"#", "f", Ellipsis>> }

RECURSIVE Concat(_)
Concat(pieces) == IF pieces = << >> THEN << >> ELSE Head(pieces) \o Concat(Tail(pieces))

Texts == { Concat(pieces) : pieces \in UNION { [1..k -> Segments] : k \in 0..MaxSegments } }

FindAll ==
    /\ all_matches = None
    /\ all_matches' = Some(find_all(text_content))
    /\ UNCHANGED text_content
    /\ UNCHANGED notEx

InitExtract ==
    /\ IdlePipeline /\ IdleProbe /\ IdleDns /\ IdleTg /\ IdleCodec /\ IdleRun /\ IdleFetch
    /\ text_content \in Texts
    /\ all_matches = None

NextExtract == FindAll

SpecExtract == InitExtract /\ [][NextExtract]_vars

\* C7: no token of any list find_all returns holds the horizontal ellipsis
\* or a '#'.
C7_NoEllipsisNoFragment ==
    all_matches # None =>
        \A n \in DOMAIN all_matches[1] :
            \A i \in 1..Len(all_matches[1][n]) :
                /\ ~Contains(all_matches[1][n][i], <<Ellipsis>>)
                /\ ~Contains(all_matches[1][n][i], <<"#">>)

\* C28: every token find_all returns under a tag is returned again under
\* that tag when find_all is applied to the token alone.
C28_ExtractionIdempotent ==
    all_matches # None =>
        \A k \in DOMAIN all_matches[1] :
            \A n \in DOMAIN all_matches[1][k] :
                /\ k \in DOMAIN find_all(all_matches[1][k][n])
                /\ \E m \in DOMAIN find_all(all_matches[1][k][n])[k] :
                      find_all(all_matches[1][k][n])[k][m] = all_matches[1][k][n]

\* The text is one URI with a display fragment: a scheme of PATTERNS, one
\* character or more of the token, a '#', and a fragment without space.
UriWithFragment(text) ==
    LET mark == IndexOf(text, "#")
    IN  /\ mark > 0
        /\ \A i \in 1..Len(text) : ~IsSpace(text[i])
        /\ \E prefix \in {<<"v", "l", "e", "s", "s", ":", "/", "/">>, <<"s", "s", ":", "/", "/">>, <<"v", "m", "e", "s", "s", ":", "/", "/">>, <<"h", "y", "2", ":", "/", "/">>} :
               MatchesAt(text, 1, prefix) /\ mark > Len(prefix) + 1

\* C18: for a URI whose display fragment holds the horizontal ellipsis,
\* find_all returns no token.
C18_TruncatedFragmentDropped ==
    (/\ all_matches # None
     /\ UriWithFragment(text_content)
     /\ Contains(SubSeq(text_content, IndexOf(text_content, "#") + 1, Len(text_content)),
                 <<Ellipsis>>))
    => DOMAIN all_matches[1] = {}

(***************************************************************************)
(* Text, bytes and numbers.                                                *)
(***************************************************************************)
\* The ASCII characters by code: Ascii[n + 1] is chr(n).
Ascii ==
    <<
       "U+0000", "U+0001", "U+0002", "U+0003", "U+0004", "U+0005", "U+0006", "U+0007",
       "U+0008", "\t", "\n", "U+000B", "\f", "\r", "U+000E", "U+000F",
       "U+0010", "U+0011", "U+0012", "U+0013", "U+0014", "U+0015", "U+0016", "U+0017",
       "U+0018", "U+0019", "U+001A", "U+001B", "U+001C", "U+001D", "U+001E", "U+001F",
       " ", "!", "\"", "#", "$", "%", "&", "'",
       "(", ")", "*", "+", ",", "-", ".", "/",
       "0", "1", "2", "3", "4", "5", "6", "7",
       "8", "9", ":", ";", "<", "=", ">", "?",
       "@", "A", "B", "C", "D", "E", "F", "G",
       "H", "I", "J", "K", "L", "M", "N", "O",
       "P", "Q", "R", "S", "T", "U", "V", "W",
       "X", "Y", "Z", "[", "\\", "]", "^", "_",
       "U+0060", "a", "b", "c", "d", "e", "f", "g",
       "h", "i", "j", "k", "l", "m", "n", "o",
       "p", "q", "r", "s", "t", "u", "v", "w",
       "x", "y", "z", "{", "|", "}", "~", "U+007F"
    >>

chr(n) == Ascii[n + 1]

ord(c) == (CHOOSE i \in DOMAIN Ascii : Ascii[i] = c) - 1

\* The character U+FFFD that a decoder with errors='replace' writes.
Replacement == "U+FFFD"

\* str.encode('utf-8') of a text of ASCII characters.
Utf8Encode(s) == [i \in 1..Len(s) |-> ord(s[i])]

\* bytes.decode('utf-8'): a record [ok, text].  The byte strings of the
\* model hold ASCII bytes and the byte 255, which no UTF-8 text holds, so a
\* byte from 128 on makes the decoding fail.
Utf8Decode(bytes) ==
    IF \A i \in 1..Len(bytes) : bytes[i] < 128
    THEN [ok |-> TRUE, text |-> [i \in 1..Len(bytes) |-> chr(bytes[i])]]
    ELSE [ok |-> FALSE, text |-> << >>]

\* str.strip() without arguments.
RECURSIVE lstrip(_)
lstrip(s) == IF s # << >> /\ IsSpace(Head(s)) THEN lstrip(Tail(s)) ELSE s

RECURSIVE rstrip(_)
rstrip(s) ==
    IF s # << >> /\ IsSpace(s[Len(s)]) THEN rstrip(SubSeq(s, 1, Len(s) - 1)) ELSE s

strip(s) == rstrip(lstrip(s))

\* str.rstrip('=')
RECURSIVE rstripPad(_)
rstripPad(s) ==
    IF s # << >> /\ s[Len(s)] = "=" THEN rstripPad(SubSeq(s, 1, Len(s) - 1)) ELSE s

\* str.strip("[]")
RECURSIVE stripBrackets(_)
stripBrackets(s) ==
    IF s # << >> /\ Head(s) \in {"[", "]"} THEN stripBrackets(Tail(s))
    ELSE IF s # << >> /\ s[Len(s)] \in {"[", "]"}
         THEN stripBrackets(SubSeq(s, 1, Len(s) - 1))
         ELSE s

\* str.lower()
lowerStr(s) == [i \in 1..Len(s) |-> lower(s[i])]

\* s.startswith(prefix)
startswith(s, prefix) == HasAt(s, 1, prefix)

\* s.partition(c) and s.rpartition(c) for a one-character separator, as the
\* record [head, sep, tail]; sep is FALSE when c is not in s.
partition(s, c) ==
    LET p == IndexOf(s, c)
    IN  IF p = 0 THEN [head |-> s, sep |-> FALSE, tail |-> << >>]
        ELSE [head |-> SubSeq(s, 1, p - 1), sep |-> TRUE, tail |-> SubSeq(s, p + 1, Len(s))]

rpartition(s, c) ==
    LET p == LastIndexOf(s, c)
    IN  IF p = 0 THEN [head |-> << >>, sep |-> FALSE, tail |-> s]
        ELSE [head |-> SubSeq(s, 1, p - 1), sep |-> TRUE, tail |-> SubSeq(s, p + 1, Len(s))]

\* s.split(c): the pieces between the separators.
RECURSIVE split(_, _)
split(s, c) ==
    IF IndexOf(s, c) = 0 THEN <<s>>
    ELSE <<SubSeq(s, 1, IndexOf(s, c) - 1)>> \o split(SubSeq(s, IndexOf(s, c) + 1, Len(s)), c)

\* s.replace(a, b) for one-character a and b.
replaceChar(s, a, b) == [i \in 1..Len(s) |-> IF s[i] = a THEN b ELSE s[i]]

\* s.isdigit() and s.isascii() of a text of the model.
isdigit(s) == s # << >> /\ \A i \in 1..Len(s) : s[i] \in Digits

DigitChars == <<"0", "1", "2", "3", "4", "5", "6", "7", "8", "9">>

DigitValue(c) == (CHOOSE i \in DOMAIN DigitChars : DigitChars[i] = c) - 1

RECURSIVE DigitsValue(_)
DigitsValue(s) ==
    IF s = << >> THEN 0
    ELSE 10 * DigitsValue(SubSeq(s, 1, Len(s) - 1)) + DigitValue(s[Len(s)])

\* int(s) of a text: a record [ok, value]; ok is FALSE where int raises
\* ValueError.  Space around the number is dropped and a sign is read; the
\* texts of the model hold no '_' between digits.
int(s) ==
    LET text == strip(s)
        signed == text # << >> /\ Head(text) \in {"+", "-"}
        body == IF signed THEN Tail(text) ELSE text
    IN  IF isdigit(body)
        THEN [ok |-> TRUE,
              value |-> IF signed /\ Head(text) = "-" THEN 0 - DigitsValue(body)
                        ELSE DigitsValue(body)]
        ELSE [ok |-> FALSE, value |-> 0]

\* str(n) of an integer.
RECURSIVE NatStr(_)
NatStr(n) ==
    IF n < 10 THEN <<DigitChars[n + 1]>>
    ELSE NatStr(n \div 10) \o <<DigitChars[(n % 10) + 1]>>

str(n) == IF n < 0 THEN <<"-">> \o NatStr(0 - n) ELSE NatStr(n)

(***************************************************************************)
(* base64                                                                  *)
(***************************************************************************)
Base64Alphabet ==
    <<
       "A", "B", "C", "D", "E", "F", "G", "H", "I", "J", "K", "L", "M", "N", "O", "P",
       "Q", "R", "S", "T", "U", "V", "W", "X", "Y", "Z", "a", "b", "c", "d", "e", "f",
       "g", "h", "i", "j", "k", "l", "m", "n", "o", "p", "q", "r", "s", "t", "u", "v",
       "w", "x", "y", "z", "0", "1", "2", "3", "4", "5", "6", "7", "8", "9", "+", "/"
    >>

Base64Char(c) == c \in Range(Base64Alphabet)

Base64Value(c) == (CHOOSE i \in DOMAIN Base64Alphabet : Base64Alphabet[i] = c) - 1

\* binascii.b2a_base64 without the newline: three bytes make four
\* characters of six bits each, and the last group is padded with '='.
b64encode(bytes) ==
    LET byte(k) == IF k <= Len(bytes) THEN bytes[k] ELSE 0
        sextet(g, r) ==
            CASE r = 0 -> byte(3 * g + 1) \div 4
              [] r = 1 -> (byte(3 * g + 1) % 4) * 16 + byte(3 * g + 2) \div 16
              [] r = 2 -> (byte(3 * g + 2) % 16) * 4 + byte(3 * g + 3) \div 64
              [] r = 3 -> byte(3 * g + 3) % 64
    IN  [i \in 1..(4 * ((Len(bytes) + 2) \div 3)) |->
            IF ((i - 1) % 4) + 1 > (Len(bytes) - 3 * ((i - 1) \div 4)) + 1
            THEN "="
            ELSE Base64Alphabet[sextet((i - 1) \div 4, (i - 1) % 4) + 1]]

\* base64.urlsafe_b64encode: '+' and '/' become '-' and '_'.
urlsafe_b64encode(bytes) == replaceChar(replaceChar(b64encode(bytes), "+", "-"), "/", "_")

\* The bytes of the characters of the alphabet in data, six bits each.
Base64Bytes(data) ==
    LET value(k) == Base64Value(data[k])
        n == Len(data)
    IN  [k \in 1..(3 * (n \div 4) + (IF n % 4 = 0 THEN 0 ELSE (n % 4) - 1)) |->
            LET g == 4 * ((k - 1) \div 3)
            IN  CASE (k - 1) % 3 = 0 -> value(g + 1) * 4 + value(g + 2) \div 16
                  [] (k - 1) % 3 = 1 -> (value(g + 2) % 16) * 16 + value(g + 3) \div 4
                  [] (k - 1) % 3 = 2 -> (value(g + 3) % 4) * 64 + value(g + 4)]

\* binascii.a2b_base64(s): a record [ok, bytes]; ok is FALSE where
\* binascii.Error is raised.  A character outside the alphabet is skipped;
\* the reading stops at a '=' that completes a group of four: the first
\* behind three characters of a group, the second behind two.  A group left
\* open at the end is an error.
a2b_base64(s) ==
    LET before(i) == { j \in 1..(i - 1) : Base64Char(s[j]) }
        quad(i) == Cardinality(before(i)) % 4
        pads(i) == Cardinality({ j \in 1..(i - 1) :
                                   s[j] = "=" /\ \A k \in before(i) : k < j })
        stops(i) == s[i] = "=" /\ (quad(i) = 3 \/ (quad(i) = 2 /\ pads(i) >= 1))
        stop == IF \E i \in 1..Len(s) : stops(i)
                THEN CHOOSE i \in 1..Len(s) : stops(i) /\ \A j \in 1..(i - 1) : ~stops(j)
                ELSE Len(s) + 1
        data == SelectSeq(SubSeq(s, 1, stop - 1), Base64Char)
    IN  IF stop <= Len(s) \/ Len(data) % 4 = 0
        THEN [ok |-> TRUE, bytes |-> Base64Bytes(data)]
        ELSE [ok |-> FALSE, bytes |-> << >>]

\* binascii.a2b_base64(s, strict_mode=True) raises nothing: s is characters
\* of the alphabet and then just the padding its last group lacks.
StrictBase64(s) ==
    LET n == IF IndexOf(s, "=") = 0 THEN Len(s) ELSE IndexOf(s, "=") - 1
        padding == SubSeq(s, n + 1, Len(s))
    IN  /\ \A i \in 1..n : Base64Char(s[i])
        /\ \/ n % 4 = 0 /\ padding = << >>
           \/ n % 4 = 2 /\ padding = <<"=", "=">>
           \/ n % 4 = 3 /\ padding = <<"=">>

\* s + '=' * (-len(s) % 4)
Padded(s) == s \o [i \in 1..((4 - (Len(s) % 4)) % 4) |-> "="]

\* base64.urlsafe_b64decode: '-' and '_' are read as '+' and '/'.
urlsafe_b64decode(s) ==
    a2b_base64(replaceChar(replaceChar(s, "-", "+"), "_", "/"))

b64_decode(s) ==
    LET decoded_bytes == urlsafe_b64decode(Padded(strip(s)))
    IN  IF decoded_bytes.ok /\ Utf8Decode(decoded_bytes.bytes).ok
        THEN Utf8Decode(decoded_bytes.bytes).text
        ELSE << >>

b64_encode(s) == rstripPad(urlsafe_b64encode(Utf8Encode(s)))

is_valid_base64(s) == StrictBase64(Padded(s))

(***************************************************************************)
(* urllib.parse                                                            *)
(***************************************************************************)
HexDigits ==
    <<"0", "1", "2", "3", "4", "5", "6", "7", "8", "9", "A", "B", "C", "D", "E", "F">>

IsHex(c) == c \in Range(HexDigits) \cup {"a", "b", "c", "d", "e", "f"}

HexValue(c) ==
    (CHOOSE i \in DOMAIN HexDigits : HexDigits[i] = c \/ lower(HexDigits[i]) = c) - 1

\* The character a decoded byte stands for: the bytes the texts of the
\* model escape are ASCII or no part of a UTF-8 sequence, and the decoder
\* with errors='replace' writes U+FFFD for each of the latter.
DecodedByte(b) == IF b < 128 THEN chr(b) ELSE Replacement

\* unquote: %xx becomes the character of the byte xx; a '%' that two
\* hexadecimal digits do not follow stays.
RECURSIVE unquote(_)
unquote(s) ==
    IF s = << >> THEN << >>
    ELSE IF Head(s) = "%" /\ Len(s) >= 3 /\ IsHex(s[2]) /\ IsHex(s[3])
         THEN <<DecodedByte(16 * HexValue(s[2]) + HexValue(s[3]))>>
              \o unquote(SubSeq(s, 4, Len(s)))
         ELSE <<Head(s)>> \o unquote(Tail(s))

\* The name and the value of one field of a query; a field without '=' or
\* with an empty value is left out (keep_blank_values is False).
RECURSIVE QueryFields(_)
QueryFields(fields) ==
    IF fields = << >> THEN << >>
    ELSE LET nv == partition(Head(fields), "=")
         IN  IF nv.sep /\ nv.tail # << >>
             THEN <<<<unquote(replaceChar(nv.head, "+", " ")),
                      unquote(replaceChar(nv.tail, "+", " "))>>>>
                  \o QueryFields(Tail(fields))
             ELSE QueryFields(Tail(fields))

\* parse_qsl: the (name, value) pairs of a query in their order.
parse_qsl(qs) == IF qs = << >> THEN << >> ELSE QueryFields(split(qs, "&"))

\* parse_qs(qs).get(name, [default])[0]: the first value of the name.
QueryGet(pairs, name, default) ==
    IF \E i \in 1..Len(pairs) : pairs[i][1] = name
    THEN pairs[CHOOSE i \in 1..Len(pairs) :
                   pairs[i][1] = name /\ \A j \in 1..(i - 1) : pairs[j][1] # name][2]
    ELSE default

\* The first position from start on that holds one of '/', '?', '#', or the
\* position behind the text.
RECURSIVE NetlocEnd(_, _)
NetlocEnd(url, start) ==
    IF start > Len(url) \/ url[start] \in {"/", "?", "#"} THEN start
    ELSE NetlocEnd(url, start + 1)

\* ipaddress.ip_address of the host between brackets is an IPv6 address: the
\* bracketed hosts of the model are "::1" and texts that are no address.
IsIPv6Address(host) == host = <<":", ":", "1">>

\* \Av[a-fA-F0-9]+\..+\Z
IsIPvFuture(host) ==
    LET dot == IndexOf(host, ".")
    IN  /\ dot >= 3
        /\ \A i \in 2..(dot - 1) : IsHex(host[i])
        /\ Len(host) > dot

\* _check_bracketed_host raises ValueError.
BadBracketedHost(host) ==
    IF host # << >> /\ Head(host) = "v"
    THEN ~IsIPvFuture(host)
    ELSE ~IsIPv6Address(host)

\* urlsplit of a text "<scheme>://...": the record [ok, netloc, path, query,
\* fragment]; ok is FALSE where ValueError is raised.
urlsplit(uri) ==
    LET cleaned == SelectSeq(uri, LAMBDA c : c \notin {"\t", "\r", "\n"})
        rest == SubSeq(cleaned, IndexOf(cleaned, ":") + 1, Len(cleaned))
        hasNetloc == HasAt(rest, 1, <<"/", "/">>)
        delim == IF hasNetloc THEN NetlocEnd(rest, 3) ELSE 1
        netloc == IF hasNetloc THEN SubSeq(rest, 3, delim - 1) ELSE << >>
        tail == SubSeq(rest, delim, Len(rest))
        frag == partition(tail, "#")
        qry == partition(frag.head, "?")
        open == Contains(netloc, <<"[">>)
        close == Contains(netloc, <<"]">>)
    IN  IF open # close
        THEN [ok |-> FALSE]
        ELSE IF open /\ BadBracketedHost(partition(partition(netloc, "[").tail, "]").head)
        THEN [ok |-> FALSE]
        ELSE [ok |-> TRUE, netloc |-> netloc, path |-> qry.head,
              query |-> qry.tail, fragment |-> frag.tail]

\* SplitResult.username: None without '@'.
url_username(netloc) ==
    IF rpartition(netloc, "@").sep
    THEN Some(partition(rpartition(netloc, "@").head, ":").head)
    ELSE None

\* SplitResult._hostinfo: the record [hostname, port] of two texts.
hostinfo(netloc) ==
    LET info == rpartition(netloc, "@").tail
        br == partition(info, "[")
    IN  IF br.sep
        THEN [hostname |-> partition(br.tail, "]").head,
              port |-> partition(partition(br.tail, "]").tail, ":").tail]
        ELSE [hostname |-> partition(info, ":").head,
              port |-> partition(info, ":").tail]

\* SplitResult.hostname: None for an empty host, else the host in lower
\* case up to a '%'.
url_hostname(netloc) ==
    LET h == hostinfo(netloc).hostname
        zone == partition(h, "%")
    IN  IF h = << >> THEN None
        ELSE Some(lowerStr(zone.head) \o (IF zone.sep THEN <<"%">> ELSE << >>) \o zone.tail)

\* SplitResult.port: the record [ok, value]; value is None without a port,
\* and ok is FALSE where ValueError is raised.
url_port(netloc) ==
    LET p == hostinfo(netloc).port
    IN  IF p = << >> THEN [ok |-> TRUE, value |-> None]
        ELSE IF isdigit(p) /\ DigitsValue(p) <= 65535
        THEN [ok |-> TRUE, value |-> Some(DigitsValue(p))]
        ELSE [ok |-> FALSE, value |-> None]

\* s.replace(old, new)
RECURSIVE replaceAll(_, _, _)
replaceAll(s, old, new) ==
    IF s = << >> THEN << >>
    ELSE IF HasAt(s, 1, old)
         THEN new \o replaceAll(SubSeq(s, Len(old) + 1, Len(s)), old, new)
         ELSE <<Head(s)>> \o replaceAll(Tail(s), old, new)

\* sep.join(pieces)
RECURSIVE join(_, _)
join(sep, pieces) ==
    IF pieces = << >> THEN << >>
    ELSE IF Len(pieces) = 1 THEN Head(pieces)
         ELSE Head(pieces) \o sep \o join(sep, Tail(pieces))

(***************************************************************************)
(* json, for an object whose values are texts and integers.  A value is    *)
(* the record JStr(s) or JInt(n), an object the sequence of its (key,      *)
(* value) pairs.                                                           *)
(***************************************************************************)
JStr(s) == [t |-> "str", s |-> s]
JInt(n) == [t |-> "int", n |-> n]

JsonFail == [ok |-> FALSE]

\* The characters from 0 to 31, which a JSON text does not hold unescaped.
ControlChars == { Ascii[i] : i \in 1..32 }

\* A JSON text from behind its opening quote: the record [ok, value, next].
\* Of the escapes the model reads \", \\ and \/.
RECURSIVE JsonStringBody(_, _, _)
JsonStringBody(s, i, acc) ==
    IF i > Len(s) \/ s[i] \in ControlChars THEN JsonFail
    ELSE IF s[i] = "\"" THEN [ok |-> TRUE, value |-> JStr(acc), next |-> i + 1]
    ELSE IF s[i] = "\\"
         THEN IF i < Len(s) /\ s[i + 1] \in {"\"", "\\", "/"}
              THEN JsonStringBody(s, i + 2, Append(acc, s[i + 1]))
              ELSE JsonFail
         ELSE JsonStringBody(s, i + 1, Append(acc, s[i]))

RECURSIVE DigitsEnd(_, _)
DigitsEnd(s, i) == IF i > Len(s) \/ s[i] \notin Digits THEN i ELSE DigitsEnd(s, i + 1)

\* A JSON integer from position i: -?(0|[1-9][0-9]*).  A fraction or an
\* exponent behind it makes a float, which the texts of the model do not
\* hold.
JsonInt(s, i) ==
    LET first == IF i <= Len(s) /\ s[i] = "-" THEN i + 1 ELSE i
        e == DigitsEnd(s, first)
    IN  IF e = first THEN JsonFail
        ELSE IF s[first] = "0" /\ e > first + 1 THEN JsonFail
        ELSE IF e <= Len(s) /\ s[e] \in {".", "e", "E"} THEN JsonFail
        ELSE [ok |-> TRUE,
              value |-> JInt(IF first > i THEN 0 - DigitsValue(SubSeq(s, first, e - 1))
                             ELSE DigitsValue(SubSeq(s, first, e - 1))),
              next |-> e]

JsonValue(s, i) ==
    IF i > Len(s) THEN JsonFail
    ELSE IF s[i] = "\"" THEN JsonStringBody(s, i + 1, << >>)
    ELSE JsonInt(s, i)

\* The members of an object from position i, which holds the quote of a
\* key: the record [ok, value] of the pairs, to the '}' that ends the text.
RECURSIVE JsonMembers(_, _, _)
JsonMembers(s, i, acc) ==
    IF i > Len(s) \/ s[i] # "\"" THEN JsonFail
    ELSE LET k == JsonStringBody(s, i + 1, << >>)
         IN  IF ~k.ok THEN JsonFail
             ELSE IF k.next > Len(s) \/ s[k.next] # ":" THEN JsonFail
             ELSE LET v == JsonValue(s, k.next + 1)
                  IN  IF ~v.ok THEN JsonFail
                      ELSE IF v.next > Len(s) THEN JsonFail
                      ELSE IF s[v.next] = ","
                      THEN JsonMembers(s, v.next + 1, Append(acc, <<k.value.s, v.value>>))
                      ELSE IF s[v.next] = "}" /\ v.next = Len(s)
                      THEN [ok |-> TRUE, value |-> Append(acc, <<k.value.s, v.value>>)]
                      ELSE JsonFail

\* json.loads of a text without space between its tokens: the record
\* [ok, value]; ok is FALSE where JSONDecodeError is raised, and for a text
\* that is no object, of which VmessConfig(**data) raises TypeError.
loads(s) ==
    IF s = <<"{", "}">> THEN [ok |-> TRUE, value |-> << >>]
    ELSE IF s # << >> /\ Head(s) = "{" THEN JsonMembers(s, 2, << >>)
    ELSE JsonFail

\* The text of a JSON string: '"' and '\' are escaped.
RECURSIVE JsonEscape(_)
JsonEscape(s) ==
    IF s = << >> THEN << >>
    ELSE IF Head(s) \in {"\"", "\\"} THEN <<"\\", Head(s)>> \o JsonEscape(Tail(s))
    ELSE <<Head(s)>> \o JsonEscape(Tail(s))

JsonText(v) ==
    IF v.t = "str" THEN <<"\"">> \o JsonEscape(v.s) \o <<"\"">> ELSE str(v.n)

\* json.dumps(obj, separators=(',', ':'))
dumps(obj) ==
    <<"{">>
    \o join(<<",">>, [i \in 1..Len(obj) |->
                         <<"\"">> \o JsonEscape(obj[i][1]) \o <<"\"", ":">> \o JsonText(obj[i][2])])
    \o <<"}">>

\* key in data, and data[key]: the last pair of a key counts.
DictHas(data, key) == \E i \in 1..Len(data) : data[i][1] = key

DictGet(data, key, default) ==
    IF DictHas(data, key)
    THEN data[CHOOSE i \in 1..Len(data) :
                  data[i][1] = key /\ \A j \in (i + 1)..Len(data) : data[j][1] # key][2]
    ELSE default

(***************************************************************************)
(* The data models.  A record holds its texts as sequences of characters   *)
(* and an optional field as None or Some(value).                           *)
(***************************************************************************)
\* str_strip_whitespace on an optional text.
StripOptional(field) == IF field = None THEN None ELSE Some(strip(field[1]))

\* The fields of BaseConfig that every protocol has.
ConfigFields(protocol, host, port, uuid, remarks, network, security, path, sni, fingerprint, source_type) ==
    [protocol |-> protocol, host |-> strip(host), port |-> port, uuid |-> strip(uuid),
     remarks |-> strip(remarks), network |-> strip(network), security |-> strip(security),
     path |-> StripOptional(path), sni |-> StripOptional(sni),
     fingerprint |-> StripOptional(fingerprint), source_type |-> source_type,
     ping |-> None]

\* VlessConfig(...): uuid is the optional text urlparse gives for the user
\* name, and None fails the validation of `uuid: str`.
VlessConfig(uuid, host, port, remarks, network, security, path, sni, fingerprint, flow, pbk, sid) ==
    IF uuid = None THEN Raise("ValidationError")
    ELSE Return(ConfigFields("vless", host, port, uuid[1], remarks, network, security,
                             path, sni, fingerprint, "unknown")
                @@ [flow |-> StripOptional(flow), pbk |-> StripOptional(pbk),
                    sid |-> StripOptional(sid)])

\* ShadowsocksConfig(...): map_fields copies the password to uuid.
ShadowsocksConfig(host, port, remarks, method, password) ==
    Return(ConfigFields("shadowsocks", host, port, password, remarks, <<"t", "c", "p">>, <<"n", "o", "n", "e">>,
                        None, None, None, "shadowsocks")
           @@ [method |-> strip(method)])

\* Hysteria2Config(...): the field obfs_password is filled under its alias
\* 'obfs-password' only, so the keyword obfs_password is dropped and the
\* field keeps its default.
Hysteria2Config(uuid, host, port, remarks, sni, insecure, obfs, obfs_password) ==
    Return(ConfigFields("hysteria2", host, port, uuid, remarks, <<"t", "c", "p">>, <<"n", "o", "n", "e">>,
                        None, sni, None, "unknown")
           @@ [insecure |-> Some(insecure), obfs |-> StripOptional(obfs),
               obfs_password |-> None])

Absent == [t |-> "absent"]

\* `not value` of a value of the JSON object, or of a key that is absent.
Falsy(value) ==
    \/ value = Absent
    \/ value.t = "str" /\ value.s = << >>
    \/ value.t = "int" /\ value.n = 0

\* The validation of an `int` field: an integer, or a text that int reads.
AsInt(value) ==
    IF value.t = "int" THEN [ok |-> TRUE, value |-> value.n]
    ELSE IF value.t = "str" THEN int(value.s)
    ELSE [ok |-> FALSE, value |-> 0]

\* The optional text of a key of the JSON object.
OptionalText(data, key) ==
    IF DictHas(data, key) THEN Some(DictGet(data, key, Absent).s) ELSE None

\* VmessConfig(**data) for the keys to_uri writes and "fingerprint":
\* map_fields sets remarks, host, uuid, network, security and v, and then
\* every field is validated.
VmessConfig(data) ==
    LET remarks == DictGet(data, <<"p", "s">>, JStr(<<"N", "/", "A">>))
        host == DictGet(data, <<"a", "d", "d">>, JStr(<< >>))
        uuid == DictGet(data, <<"i", "d">>, JStr(<< >>))
        network == DictGet(data, <<"n", "e", "t">>, JStr(<<"t", "c", "p">>))
        security == IF Falsy(DictGet(data, <<"t", "l", "s">>, Absent)) THEN JStr(<<"n", "o", "n", "e">>)
                    ELSE DictGet(data, <<"t", "l", "s">>, Absent)
        given == DictGet(data, <<"v">>, JStr(<<"2">>))
        v == IF given.t = "int" THEN str(given.n) ELSE given.s
        aid == AsInt(DictGet(data, <<"a", "i", "d">>, JInt(0)))
        scy == DictGet(data, <<"s", "c", "y">>, JStr(<<"a", "u", "t", "o">>))
        type == DictGet(data, <<"t", "y", "p", "e">>, JStr(<<"n", "o", "n", "e">>))
        tls == DictGet(data, <<"t", "l", "s">>, JStr(<< >>))
        texts == {remarks, host, uuid, network, security, scy, type, tls}
                 \cup { DictGet(data, key, Absent) :
                          key \in { k \in {<<"p", "a", "t", "h">>, <<"s", "n", "i">>, <<"f", "i", "n", "g", "e", "r", "p", "r", "i", "n", "t">>} : DictHas(data, k) } }
    IN  IF \E key \in {<<"p", "s">>, <<"a", "d", "d">>, <<"n", "e", "t">>, <<"p", "o", "r", "t">>} : ~DictHas(data, key)
        THEN Raise("ValidationError")
        ELSE IF \E value \in texts : value.t # "str"
        THEN Raise("ValidationError")
        ELSE IF ~AsInt(DictGet(data, <<"p", "o", "r", "t">>, Absent)).ok \/ ~aid.ok
        THEN Raise("ValidationError")
        ELSE Return(ConfigFields("vmess", host.s, AsInt(DictGet(data, <<"p", "o", "r", "t">>, Absent)).value,
                                 uuid.s, remarks.s, network.s, security.s,
                                 OptionalText(data, <<"p", "a", "t", "h">>), OptionalText(data, <<"s", "n", "i">>),
                                 OptionalText(data, <<"f", "i", "n", "g", "e", "r", "p", "r", "i", "n", "t">>), "vmess")
                    @@ [ps |-> strip(remarks.s), add |-> strip(host.s), v |-> v,
                        aid |-> aid.value, scy |-> strip(scy.s), net |-> strip(network.s),
                        type |-> strip(type.s), tls |-> strip(tls.s)])

(***************************************************************************)
(* to_uri                                                                  *)
(***************************************************************************)
\* The entries of a dict of optional values that are not None and, with
\* dropEmpty, not "".
RECURSIVE Kept(_, _)
Kept(entries, dropEmpty) ==
    IF entries = << >> THEN << >>
    ELSE IF Head(entries)[2] = None THEN Kept(Tail(entries), dropEmpty)
    ELSE IF dropEmpty /\ Head(entries)[2][1] = JStr(<< >>) THEN Kept(Tail(entries), dropEmpty)
    ELSE <<<<Head(entries)[1], Head(entries)[2][1]>>>> \o Kept(Tail(entries), dropEmpty)

\* The optional text as an optional value of a dict.
OptionalValue(field) == IF field = None THEN None ELSE Some(JStr(field[1]))

\* f"{k}={v}"
Formatted(value) == IF value.t = "str" THEN value.s ELSE str(value.n)

\* '&'.join([f"{k}={v}" ...])
QueryString(entries) ==
    join(<<"&">>, [i \in 1..Len(entries) |->
                      entries[i][1] \o <<"=">> \o Formatted(entries[i][2])])

Vmess_to_uri(c) ==
    LET vmess_data ==
            << <<<<"v">>, Some(JStr(c.v))>>, <<<<"p", "s">>, Some(JStr(c.remarks))>>,
               <<<<"a", "d", "d">>, Some(JStr(c.host))>>, <<<<"p", "o", "r", "t">>, Some(JInt(c.port))>>,
               <<<<"i", "d">>, Some(JStr(c.uuid))>>, <<<<"a", "i", "d">>, Some(JInt(c.aid))>>,
               <<<<"s", "c", "y">>, Some(JStr(c.scy))>>, <<<<"n", "e", "t">>, Some(JStr(c.network))>>,
               <<<<"t", "y", "p", "e">>, Some(JStr(c.type))>>, <<<<"h", "o", "s", "t">>, OptionalValue(c.sni)>>,
               <<<<"p", "a", "t", "h">>, OptionalValue(c.path)>>,
               <<<<"t", "l", "s">>, Some(JStr(IF c.security # <<"n", "o", "n", "e">> THEN c.security ELSE << >>))>>,
               <<<<"s", "n", "i">>, OptionalValue(c.sni)>> >>
        json_str == dumps(Kept(vmess_data, TRUE))
    IN  <<"v", "m", "e", "s", "s", ":", "/", "/">> \o rstripPad(b64encode(Utf8Encode(json_str)))

Vless_to_uri(c) ==
    LET params ==
            << <<<<"t", "y", "p", "e">>, Some(JStr(c.network))>>, <<<<"s", "e", "c", "u", "r", "i", "t", "y">>, Some(JStr(c.security))>>,
               <<<<"p", "a", "t", "h">>, OptionalValue(c.path)>>, <<<<"s", "n", "i">>, OptionalValue(c.sni)>>,
               <<<<"f", "p">>, OptionalValue(c.fingerprint)>>, <<<<"f", "l", "o", "w">>, OptionalValue(c.flow)>>,
               <<<<"p", "b", "k">>, OptionalValue(c.pbk)>>, <<<<"s", "i", "d">>, OptionalValue(c.sid)>> >>
    IN  <<"v", "l", "e", "s", "s", ":", "/", "/">> \o c.uuid \o <<"@">> \o c.host \o <<":">> \o str(c.port) \o <<"?">>
        \o QueryString(Kept(params, TRUE)) \o <<"#">> \o unquote(c.remarks)

Shadowsocks_to_uri(c) ==
    LET user_info == c.method \o <<":">> \o c.uuid
    IN  <<"s", "s", ":", "/", "/">> \o rstripPad(b64encode(Utf8Encode(user_info))) \o <<"@">> \o c.host
        \o <<":">> \o str(c.port) \o <<"#">> \o unquote(c.remarks)

Hysteria2_to_uri(c) ==
    LET params ==
            << <<<<"s", "n", "i">>, OptionalValue(c.sni)>>,
               <<<<"i", "n", "s", "e", "c", "u", "r", "e">>, IF c.insecure = None THEN None ELSE Some(JInt(c.insecure[1]))>>,
               <<<<"o", "b", "f", "s">>, OptionalValue(c.obfs)>>,
               <<<<"o", "b", "f", "s", "-", "p", "a", "s", "s", "w", "o", "r", "d">>, OptionalValue(c.obfs_password)>> >>
    IN  <<"h", "y", "s", "t", "e", "r", "i", "a", "2", ":", "/", "/">> \o c.uuid \o <<"@">> \o c.host \o <<":">> \o str(c.port) \o <<"?">>
        \o QueryString(Kept(params, FALSE)) \o <<"#">> \o unquote(c.remarks)

to_uri(c) ==
    CASE c.protocol = "vmess" -> Vmess_to_uri(c)
      [] c.protocol = "vless" -> Vless_to_uri(c)
      [] c.protocol = "shadowsocks" -> Shadowsocks_to_uri(c)
      [] c.protocol = "hysteria2" -> Hysteria2_to_uri(c)

(***************************************************************************)
(* V2RayParser                                                             *)
(***************************************************************************)
\* params.get(name, [None])[0] as an optional text.
QueryOptional(params, name) ==
    IF \E i \in 1..Len(params) : params[i][1] = name
    THEN Some(QueryGet(params, name, << >>))
    ELSE None

_parse_vmess(uri) ==
    LET b64_data == SubSeq(uri, 9, Len(uri))
        data == loads(b64_decode(b64_data))
    IN  IF ~is_valid_base64(b64_data) THEN ReturnNone
        ELSE IF ~data.ok THEN ReturnNone
        ELSE IF VmessConfig(data.value).kind = "raise" THEN ReturnNone
        ELSE VmessConfig(data.value)

_parse_vless(uri) ==
    LET parsed_url == urlsplit(uri)
        host == url_hostname(parsed_url.netloc)
        number == url_port(parsed_url.netloc)
        params == parse_qsl(parsed_url.query)
    IN  IF ~parsed_url.ok THEN Raise("ValueError")
        ELSE IF host = None THEN ReturnNone
        ELSE IF ~number.ok THEN Raise("ValueError")
        ELSE IF number.value = None \/ number.value[1] = 0 THEN ReturnNone
        ELSE VlessConfig(
                 url_username(parsed_url.netloc),
                 host[1],
                 number.value[1],
                 IF parsed_url.fragment # << >> THEN unquote(parsed_url.fragment)
                 ELSE host[1] \o <<":">> \o str(number.value[1]),
                 QueryGet(params, <<"t", "y", "p", "e">>, <<"t", "c", "p">>),
                 QueryGet(params, <<"s", "e", "c", "u", "r", "i", "t", "y">>, <<"n", "o", "n", "e">>),
                 IF QueryOptional(params, <<"p", "a", "t", "h">>) = None THEN None
                 ELSE Some(unquote(QueryOptional(params, <<"p", "a", "t", "h">>)[1])),
                 QueryOptional(params, <<"s", "n", "i">>),
                 QueryOptional(params, <<"f", "p">>),
                 QueryOptional(params, <<"f", "l", "o", "w">>),
                 QueryOptional(params, <<"p", "b", "k">>),
                 QueryOptional(params, <<"s", "i", "d">>))

_parse_shadowsocks(uri) ==
    LET parts == partition(SubSeq(uri, 6, Len(uri)), "#")
        main_part == parts.head
        remarks_part == parts.tail
        user_info_part == partition(main_part, "@").head
        host_port_part == partition(main_part, "@").tail
        decoded_user_info == b64_decode(user_info_part)
        method == partition(decoded_user_info, ":").head
        password == partition(decoded_user_info, ":").tail
        host == rpartition(host_port_part, ":").head
        port_str == rpartition(host_port_part, ":").tail
    IN  IF ~Contains(main_part, <<"@">>) THEN ReturnNone
        ELSE IF ~Contains(decoded_user_info, <<":">>) \/ ~Contains(host_port_part, <<":">>)
        THEN ReturnNone
        ELSE IF ~int(port_str).ok THEN ReturnNone
        ELSE ShadowsocksConfig(stripBrackets(host), int(port_str).value,
                               unquote(remarks_part), method, password)

_parse_hysteria2(uri) ==
    LET parsed_url == urlsplit(replaceAll(uri, <<"h", "y", "2", ":", "/", "/">>, <<"h", "y", "s", "t", "e", "r", "i", "a", "2", ":", "/", "/">>))
        host == url_hostname(parsed_url.netloc)
        number == url_port(parsed_url.netloc)
        params == parse_qsl(parsed_url.query)
        insecure == IF QueryOptional(params, <<"i", "n", "s", "e", "c", "u", "r", "e">>) = None
                    THEN [ok |-> TRUE, value |-> 0]
                    ELSE int(QueryOptional(params, <<"i", "n", "s", "e", "c", "u", "r", "e">>)[1])
    IN  IF ~parsed_url.ok THEN Raise("ValueError")
        ELSE IF host = None THEN ReturnNone
        ELSE IF ~number.ok THEN Raise("ValueError")
        ELSE IF number.value = None \/ number.value[1] = 0 THEN ReturnNone
        ELSE IF ~insecure.ok THEN Raise("ValueError")
        ELSE Hysteria2Config(
                 IF url_username(parsed_url.netloc) = None THEN << >>
                 ELSE url_username(parsed_url.netloc)[1],
                 host[1],
                 number.value[1],
                 unquote(parsed_url.fragment),
                 QueryOptional(params, <<"s", "n", "i">>),
                 insecure.value,
                 QueryOptional(params, <<"o", "b", "f", "s">>),
                 QueryOptional(params, <<"o", "b", "f", "s", "-", "p", "a", "s", "s", "w", "o", "r", "d">>))

\* The if/elif chain of parse: what the decoder of the prefix hands back,
\* an exception included.
Decoder(uri) ==
    IF startswith(uri, <<"v", "m", "e", "s", "s", ":", "/", "/">>) THEN _parse_vmess(uri)
    ELSE IF startswith(uri, <<"v", "l", "e", "s", "s", ":", "/", "/">>) THEN _parse_vless(uri)
    ELSE IF startswith(uri, <<"s", "s", ":", "/", "/">>) THEN _parse_shadowsocks(uri)
    ELSE IF startswith(uri, <<"h", "y", "2", ":", "/", "/">>) \/ startswith(uri, <<"h", "y", "s", "t", "e", "r", "i", "a", "2", ":", "/", "/">>)
    THEN _parse_hysteria2(uri)
    ELSE ReturnNone

\* A parse without its try: the exception goes up to the caller.
Uncaught(outcome) == outcome

\* try: ... except (ValidationError, ParsingError, Exception): pass; then
\* return None.
Caught(outcome) == IF outcome.kind = "raise" THEN ReturnNone ELSE outcome

MIN_URI_LENGTH == 10

parse(uri) ==
    IF strip(uri) = << >> THEN ReturnNone
    ELSE IF Contains(strip(uri), <<".", ".", ".">>) \/ Len(strip(uri)) < MIN_URI_LENGTH THEN ReturnNone
    ELSE Caught(Decoder(strip(uri)))

(***************************************************************************)
(* The texts parse is applied to.                                          *)
(***************************************************************************)
\* The most fields a query or a JSON object of the model holds beyond the
\* ones every text has.
MaxParams == 2

Schemes == {<<"v", "l", "e", "s", "s", ":", "/", "/">>, <<"h", "y", "s", "t", "e", "r", "i", "a", "2", ":", "/", "/">>, <<"h", "y", "2", ":", "/", "/">>}

UserInfos == {<< >>, <<"u", "@">>, <<"a", ":", "b", "@">>}

RawHosts == {<<"h">>, <<"[", ":", ":", "1", "]">>, <<"[", ":", ":", "1">>, << >>}

RawPorts == {<< >>, <<":", "4", "4", "3">>, <<":", "0">>, <<":", "x">>, <<":", "7", "0", "0", "0", "0">>}

Fragments == {<< >>, <<"#", "r">>, <<"#", "%", "2", "0">>, <<"#", "r", ".", ".", ".">>}

\* <scheme><user>@<host>:<port>#<remarks>
AuthorityUris ==
    { s \o u \o h \o p \o f :
        s \in Schemes, u \in UserInfos, h \in RawHosts, p \in RawPorts, f \in Fragments }

QueryParams ==
    {<<"s", "e", "c", "u", "r", "i", "t", "y", "=", "t", "l", "s">>, <<"t", "y", "p", "e", "=", "w", "s">>, <<"p", "a", "t", "h", "=", "%", "2", "F", "a", "%", "2", "6", "b">>, <<"p", "a", "t", "h", "=", "/", "a", "+", "b">>, <<"s", "n", "i", "=", "s">>,
     <<"f", "p", "=", "c", "h", "r", "o", "m", "e">>, <<"i", "n", "s", "e", "c", "u", "r", "e", "=", "1">>, <<"i", "n", "s", "e", "c", "u", "r", "e", "=", "x">>, <<"o", "b", "f", "s", "-", "p", "a", "s", "s", "w", "o", "r", "d", "=", "p">>}

\* <scheme>u@h:443?<fields>#<remarks> with at most MaxParams fields.
QueryUris ==
    { s \o <<"u", "@", "h", ":", "4", "4", "3", "?">> \o join(<<"&">>, fields) \o f :
        s \in {<<"v", "l", "e", "s", "s", ":", "/", "/">>, <<"h", "y", "s", "t", "e", "r", "i", "a", "2", ":", "/", "/">>},
        fields \in SeqsUpTo(QueryParams, MaxParams),
        f \in {<< >>, <<"#", "r">>} }

\* method:password in base64, and texts that are none.
SsUserInfos ==
    {b64_encode(<<"m", ":", "p">>), b64_encode(<<"m", ":", "p", ":", "q", "@", "r">>), b64_encode(<<"m", ":", "?", "?", ">">>),
     b64_encode(<<"m", "p">>), <<"!", "!">>, <<"_", "w">>}

SsHostPorts == {<<"@", "h", ":", "4", "4", "3">>, <<"@", "[", ":", ":", "1", "]", ":", "4", "4", "3">>, <<"@", "h">>, <<"@", "h", ":", "x">>, <<"@", ":", "4", "4", "3">>, <<"h", ":", "4", "4", "3">>}

SsUris ==
    { <<"s", "s", ":", "/", "/">> \o u \o hp \o f :
        u \in SsUserInfos, hp \in SsHostPorts, f \in {<< >>, <<"#", "r">>, <<"#", "a", "%", "2", "0", "b">>} }

\* The members every JSON object of the model starts from, with ps the
\* display name and number the port.
VmessMembers(ps, number) ==
    << <<<<"v">>, JStr(<<"2">>)>>, <<<<"p", "s">>, JStr(ps)>>, <<<<"a", "d", "d">>, JStr(<<"h">>)>>,
       <<<<"p", "o", "r", "t">>, number>>, <<<<"i", "d">>, JStr(<<"u">>)>>, <<<<"n", "e", "t">>, JStr(<<"w", "s">>)>> >>

VmessExtras ==
    { <<<<"a", "i", "d">>, JInt(1)>>, <<<<"t", "l", "s">>, JStr(<<"t", "l", "s">>)>>, <<<<"s", "n", "i">>, JStr(<<"s">>)>>, <<<<"p", "a", "t", "h">>, JStr(<<"/", "p">>)>>,
      <<<<"f", "i", "n", "g", "e", "r", "p", "r", "i", "n", "t">>, JStr(<<"c", "h", "r", "o", "m", "e">>)>>, <<<<"n", "e", "t">>, JInt(1)>> }

VmessObjects ==
    { VmessMembers(ps, number) \o extras :
        ps \in {<<"n">>, << >>},
        number \in {JInt(443), JStr(<<"4", "4", "3">>), JStr(<<"x">>)},
        extras \in SeqsUpTo(VmessExtras, MaxParams) }
    \cup { SubSeq(VmessMembers(<<"n">>, JInt(443)), 1, k) : k \in 0..5 }

VmessUris ==
    { <<"v", "m", "e", "s", "s", ":", "/", "/">> \o rstripPad(b64encode(Utf8Encode(dumps(obj)))) : obj \in VmessObjects }
    \cup { <<"v", "m", "e", "s", "s", ":", "/", "/">> \o b64encode(Utf8Encode(dumps(VmessMembers(ps, JInt(443))))) :
             ps \in {<<"n">>, << >>} }
    \cup { <<"v", "m", "e", "s", "s", ":", "/", "/">> \o payload :
             payload \in {<<"!", "!", "!", "!">>, b64_encode(<<"n", "o", "t", " ", "j", "s", "o", "n">>), <<"_", "w">>, <<"/", "w">>, <<"A">>} }

OtherUris == {<< >>, <<" ", " ", " ">>, <<" ", "v", "l", "e", "s", "s", ":", "/", "/", "u", "@", "h", ":", "4", "4", "3", " ">>, <<"h", "t", "t", "p", ":", "/", "/", "u", "@", "h", ":", "4", "4", "3">>, <<"V", "L", "E", "S", "S", ":", "/", "/", "u", "@", "h", ":", "4", "4", "3">>}

\* Texts with an empty identifier, a port out of range, the obfuscation
\* fields of Hysteria2 and the host and mode parameters of VLess.
EdgeUris ==
    {<<"v", "l", "e", "s", "s", ":", "/", "/", "@", "h", ":", "4", "4", "3">>, <<"h", "y", "s", "t", "e", "r", "i", "a", "2", ":", "/", "/", "@", "h", ":", "4", "4", "3">>,
     <<"s", "s", ":", "/", "/">> \o b64_encode(<<"m", ":">>) \o <<"@", "h", ":", "4", "4", "3">>,
     <<"s", "s", ":", "/", "/">> \o b64_encode(<<"m", ":", "p">>) \o <<"@", "h", ":", "0">>,
     <<"s", "s", ":", "/", "/">> \o b64_encode(<<"m", ":", "p">>) \o <<"@", "h", ":", "7", "0", "0", "0", "0">>,
     <<"s", "s", ":", "/", "/">> \o b64_encode(<<"m", ":", "p">>) \o <<"@", "h", ":", "-", "1">>,
     <<"h", "y", "s", "t", "e", "r", "i", "a", "2", ":", "/", "/", "u", "@", "h", ":", "4", "4", "3", "?", "o", "b", "f", "s", "=", "o", "&", "o", "b", "f", "s", "-", "p", "a", "s", "s", "w", "o", "r", "d", "=", "p", "#", "r">>,
     <<"v", "l", "e", "s", "s", ":", "/", "/", "u", "@", "h", ":", "4", "4", "3", "?", "h", "o", "s", "t", "=", "h", "h", "&", "m", "o", "d", "e", "=", "m", "m", "#", "r">>}
    \cup { <<"v", "m", "e", "s", "s", ":", "/", "/">> \o b64encode(Utf8Encode(dumps(obj))) :
             obj \in { SelectSeq(VmessMembers(<<"n">>, JInt(443)), LAMBDA member : member[1] # <<"i", "d">>),
                       VmessMembers(<<"n">>, JInt(0)),
                       VmessMembers(<<"n">>, JInt(70000)) } }

\* Well-formed URIs whose scheme is written in upper or in mixed case.
UpperCaseUris ==
    {<<"V", "L", "E", "S", "S", ":", "/", "/", "u", "@", "h", ":", "4", "4", "3", "?", "t", "y", "p", "e", "=", "w", "s">>, <<"H", "y", "2", ":", "/", "/", "u", "@", "h", ":", "4", "4", "3">>, <<"S", "S", ":", "/", "/">> \o b64_encode(<<"m", ":", "p">>) \o <<"@", "h", ":", "1">>}

RawUris ==
    AuthorityUris \cup QueryUris \cup SsUris \cup VmessUris \cup OtherUris \cup EdgeUris
    \cup UpperCaseUris

(***************************************************************************)
(* A text is decoded, the record is encoded, and the URI is decoded again. *)
(***************************************************************************)
Parse ==
    /\ codec_pc = "raw"
    /\ decoded' = parse(raw_uri)
    /\ codec_pc' = "decoded"
    /\ UNCHANGED <<raw_uri, encoded, redecoded>>
    /\ UNCHANGED notCodec

Encode ==
    /\ codec_pc = "decoded"
    /\ decoded.kind = "config"
    /\ encoded' = to_uri(decoded.config)
    /\ codec_pc' = "encoded"
    /\ UNCHANGED <<raw_uri, decoded, redecoded>>
    /\ UNCHANGED notCodec

Reparse ==
    /\ codec_pc = "encoded"
    /\ redecoded' = parse(encoded)
    /\ codec_pc' = "redecoded"
    /\ UNCHANGED <<raw_uri, decoded, encoded>>
    /\ UNCHANGED notCodec

InitCodec ==
    /\ IdlePipeline /\ IdleProbe /\ IdleDns /\ IdleTg /\ IdleEx /\ IdleRun /\ IdleFetch
    /\ raw_uri \in RawUris
    /\ decoded = Pending
    /\ encoded = << >>
    /\ redecoded = Pending
    /\ codec_pc = "raw"

NextCodec == Parse \/ Encode \/ Reparse

SpecCodec == InitCodec /\ [][NextCodec]_vars

\* C2: parse hands back None or a record and raises nothing, whatever the
\* text; where the decoder of the prefix raises, parse hands back None.
C2_ParseNeverRaises ==
    /\ codec_pc \in {"decoded", "encoded", "redecoded"} =>
           /\ decoded.kind \in {"none", "config"}
           /\ Decoder(strip(raw_uri)).kind = "raise" => decoded = ReturnNone
    /\ codec_pc = "redecoded" =>
           /\ redecoded.kind \in {"none", "config"}
           /\ Decoder(strip(encoded)).kind = "raise" => redecoded = ReturnNone

\* A text of ten characters or more whose decoder raised, and parse handed
\* back None.
C2_Witness ==
    /\ codec_pc = "decoded"
    /\ Len(strip(raw_uri)) >= MIN_URI_LENGTH
    /\ ~Contains(strip(raw_uri), <<".", ".", ".">>)
    /\ Decoder(strip(raw_uri)).kind = "raise"
    /\ decoded = ReturnNone

\* The fields a round trip has to keep, by protocol.
RoundTripFields(protocol) ==
    {"protocol", "host", "port", "uuid", "network", "security", "path", "sni", "fingerprint"}
    \cup (CASE protocol = "vless" -> {"flow", "pbk", "sid"}
            [] protocol = "hysteria2" -> {"insecure", "obfs", "obfs_password"}
            [] protocol = "shadowsocks" -> {"method"}
            [] protocol = "vmess" -> {"v", "aid", "scy", "type"})

\* C3: parse(r.to_uri()) is a record with the protocol, host, port,
\* identifier and transport fields of r.
C3_RoundTrip ==
    codec_pc = "redecoded" =>
        /\ redecoded.kind = "config"
        /\ redecoded.config.protocol = decoded.config.protocol
        /\ \A f \in RoundTripFields(decoded.config.protocol) :
               redecoded.config[f] = decoded.config[f]

\* C13: a record parse returns has a non-empty identifier.
C13_IdentifierNotEmpty ==
    /\ codec_pc \in {"decoded", "encoded", "redecoded"} /\ decoded.kind = "config"
           => decoded.config.uuid # << >>
    /\ codec_pc = "redecoded" /\ redecoded.kind = "config"
           => redecoded.config.uuid # << >>

\* C14: a record parse returns has a port from 1 to 65535.
C14_PortInRange ==
    /\ codec_pc \in {"decoded", "encoded", "redecoded"} /\ decoded.kind = "config"
           => decoded.config.port \in 1..65535
    /\ codec_pc = "redecoded" /\ redecoded.kind = "config"
           => redecoded.config.port \in 1..65535

\* The query of the text handed to parse, as parse_qs reads it.
RawQuery == parse_qsl(urlsplit(strip(raw_uri)).query)

\* C19: a Hysteria2 URI with obfs and obfs-password decodes to a record
\* that holds both values, and to_uri writes both parameters again.
C19_ObfsKept ==
    (/\ codec_pc \in {"encoded", "redecoded"}
     /\ decoded.config.protocol = "hysteria2"
     /\ QueryOptional(RawQuery, <<"o", "b", "f", "s">>) # None
     /\ QueryOptional(RawQuery, <<"o", "b", "f", "s", "-", "p", "a", "s", "s", "w", "o", "r", "d">>) # None)
    => /\ decoded.config.obfs = QueryOptional(RawQuery, <<"o", "b", "f", "s">>)
       /\ decoded.config.obfs_password = QueryOptional(RawQuery, <<"o", "b", "f", "s", "-", "p", "a", "s", "s", "w", "o", "r", "d">>)
       /\ \E p \in 1..Len(encoded) : HasAt(encoded, p, <<"o", "b", "f", "s", "=">>)
       /\ \E p \in 1..Len(encoded) : HasAt(encoded, p, <<"o", "b", "f", "s", "-", "p", "a", "s", "s", "w", "o", "r", "d", "=">>)

\* The fields of a record that every protocol has and that hold no query
\* parameter of their own.
PlainFields ==
    {"protocol", "host", "port", "uuid", "remarks", "network", "security", "source_type", "ping"}

\* C20: a VLess URI with host= and mode= decodes to a record of which one
\* optional field holds the host header and one the mode.
C20_HostAndModeKept ==
    (/\ codec_pc \in {"decoded", "encoded", "redecoded"}
     /\ decoded.kind = "config"
     /\ decoded.config.protocol = "vless"
     /\ QueryOptional(RawQuery, <<"h", "o", "s", "t">>) # None
     /\ QueryOptional(RawQuery, <<"m", "o", "d", "e">>) # None)
    => /\ \E f \in DOMAIN decoded.config \ PlainFields :
              decoded.config[f] = QueryOptional(RawQuery, <<"h", "o", "s", "t">>)
       /\ \E f \in DOMAIN decoded.config \ PlainFields :
              decoded.config[f] = QueryOptional(RawQuery, <<"m", "o", "d", "e">>)

(***************************************************************************)
(* From a message text to the label of _format_remarks: find_all files the *)
(* token under a tag, process decodes it with parse(link, proto).          *)
(***************************************************************************)
\* A message whose VLESS URI names the security `reality`.
RealityMessage == <<"v", "l", "e", "s", "s", ":", "/", "/", "u", "@", "g", ":", "4", "4", "3", "?", "s", "e", "c", "u", "r", "i", "t", "y", "=", "r", "e", "a", "l", "i", "t", "y", "#", "f", "i", "f", "t", "h">>

\* The str of a sequence of characters.
RECURSIVE Flat(_)
Flat(s) == IF s = << >> THEN "" ELSE Head(s) \o Flat(Tail(s))

\* for proto, links in self.raw_configs.items(): for link in links:
\* obj = V2RayParser.parse(link, proto).  The fields the pipeline reads of
\* the records decoded from the links find_all files under the tag.
Classified(text, proto) ==
    IF proto \notin DOMAIN find_all(text) THEN {}
    ELSE LET links == find_all(text)[proto]
         IN  { [protocol |-> parse(links[k]).config.protocol,
                host |-> Flat(parse(links[k]).config.host),
                port |-> parse(links[k]).config.port,
                uuid |-> Flat(parse(links[k]).config.uuid),
                network |-> Flat(parse(links[k]).config.network),
                security |-> Flat(parse(links[k]).config.security),
                source_type |-> parse(links[k]).config.source_type] :
               k \in { j \in DOMAIN links : parse(links[j]).kind = "config" } }

ClassifiedReality == Classified(RealityMessage, "reality")

FromRealityTag(c) ==
    \E r \in ClassifiedReality : \A f \in DOMAIN r : c[f] = r[f]

\* The label the record is to get.
ExpectedLabel(c) ==
    IF FromRealityTag(c) THEN "RLT"
    ELSE IF c.security = "tls" THEN "TLS"
    ELSE IF c.security = "xtls" THEN "XTLS"
    ELSE IF c.security = "none" \/ c.security = "" THEN "NTLS"
    ELSE Upper(c.security)

\* C16: after _format_remarks the remarks of every kept record carry the
\* label of its security: RLT when the record was decoded from a token filed
\* under the tag reality, TLS and XTLS for those values, NTLS for none or an
\* empty value, and the value in upper case otherwise.
C16_SecurityLabels ==
    stage \in {"processed", "done"} =>
        \A i \in Range(unique_configs) :
            parsed_configs[i].remarks = Remarks(parsed_configs[i], ExpectedLabel(parsed_configs[i]))

(***************************************************************************)
(* The probe stage against the results of _test_tcp.                       *)
(***************************************************************************)
\* C15: with connectivity testing enabled, a probed record is removed from
\* unique_configs if and only if its connect failed or timed out, and every
\* record whose connect succeeded holds the measured milliseconds as its
\* ping.
C15_RemovedIffConnectFailed ==
    (enable_test /\ stage \in {"tested", "processed", "done"}) =>
        \A i \in DOMAIN tcp_result :
            /\ i \notin Range(unique_configs) <=> tcp_result[i] = Some(PING_FAILED)
            /\ tcp_result[i] # Some(PING_FAILED) => parsed_configs[i].ping = tcp_result[i]

(***************************************************************************)
(* Enrichment that fails.                                                  *)
(***************************************************************************)
\* The objects _enrich_data has gone over.
Enriched ==
    IF stage \in {"enriched", "tested", "processed", "done"} THEN Range(unique_configs) ELSE {}

MaxLinks == 2

\* CONFIG.ENABLE_SUBSCRIPTION_FETCHING
ENABLE_SUBSCRIPTION_FETCHING == TRUE

\* What a text fetched from a link holds: URI tokens in the clear, URI
\* tokens under base64, or a page without a token.
FetchedTexts == {"tokens", "encoded", "page"}

\* What client.get(url) meets: a response, or an exception.  TimeoutException
\* is a subclass of httpx.RequestError.
RequestErrors == {"TimeoutException"}

HttpEvents ==
    { [kind |-> "response", status |-> 200, text |-> t] : t \in FetchedTexts \ {"page"} }
    \cup { [kind |-> "response", status |-> 404, text |-> "page"] }
    \cup { [kind |-> "raise", exc |-> e] : e \in RequestErrors \cup {"Exception"} }

HttpReturn(status, text) == [kind |-> "return", status |-> status, text |-> text]

\* AsyncHttpClient.get without its last handler.
get_uncaught(event) ==
    IF event.kind = "raise"
    THEN IF event.exc \in RequestErrors THEN HttpReturn(0, "") ELSE Raise(event.exc)
    ELSE IF event.status >= 400 THEN HttpReturn(event.status, "")
    ELSE HttpReturn(event.status, event.text)

\* AsyncHttpClient.get: raise_for_status raises HTTPStatusError for a status
\* of 400 and above; the three handlers return a pair in every case.
get(event) ==
    IF event.kind = "raise"
    THEN IF event.exc \in RequestErrors THEN HttpReturn(0, "") ELSE HttpReturn(0, "")
    ELSE IF event.status >= 400 THEN HttpReturn(event.status, "")
    ELSE HttpReturn(event.status, event.text)

\* SubscriptionFetcher._fetch_link over what get gave: the bare except turns
\* an exception into "", and a text under base64 is decoded.
_fetch_link(ret) ==
    IF ret.kind = "raise" THEN ""
    ELSE IF ret.text = "" THEN ""
    ELSE IF ret.text = "encoded" THEN "tokens"
    ELSE ret.text

\* The files of CONFIG.DATA_DIR the run writes.
GeoFiles == {"GeoLite2-Country.mmdb", "GeoLite2-ASN.mmdb"}

\* The records the tokens of a run decode to, and their hosts.
RunRecords == {1, 2}
RunHost(c) == IF c = 1 THEN "h" ELSE "1.2.3.4"

\* The records get_results returns: with testing, those whose worker stored
\* a ping that is true.
FinalConfigs ==
    IF enable_test
    THEN { c \in RunRecords : PingTruthy(WorkerStore([ping |-> None], tcp_result[c][1])) }
    ELSE RunRecords

\* c.country after _enrich_data.
RunCountry(c) ==
    IF dns_result[RunHost(c)] = None THEN "XX" ELSE get_info(dns_result[RunHost(c)][1])[1]

\* The paths _save_outputs writes, in the order of its save_text calls: the
\* four lists, one file per category that is not empty and not "XX" (every
\* record of the model is a VLESS record), and the dashboard.
SaveOrder ==
    <<"subscribe/base64.txt", "all_configs.txt", "clash/meta.yaml", "singbox/config.json">>
    \o (IF FinalConfigs = {} THEN << >> ELSE <<"protocols/vless.txt">>)
    \o (IF \E c \in FinalConfigs : RunCountry(c) = "DE" THEN <<"countries/DE.txt">> ELSE << >>)
    \o <<"html/dashboard.html">>

notRun == <<pipeVars, probeVars, dnsVars, tgVars, exVars, codecVars, fetchVars>>

\* _download_assets: a missing database is downloaded and written, or the
\* failure is logged; Geolocation.initialize swallows every exception.
DownloadAssets ==
    /\ run_end = "running" /\ run_pc = "assets"
    /\ \E written \in SUBSET GeoFiles : data_files' = data_files \cup written
    /\ run_pc' = "links"
    /\ UNCHANGED <<run_end, out_files, sub_links, found, http_result>>
    /\ UNCHANGED notRun

\* _get_subscription_links: the call of get stands outside every try; with
\* status 200 and a text the backup is written, and the list is the decoded
\* text or the content of the local file, else [].
GetSubscriptionLinks ==
    /\ run_end = "running" /\ run_pc = "links"
    /\ \E event \in HttpEvents :
          LET ret == get(event)
          IN  IF ret.kind = "raise"
              THEN /\ run_end' = "raised"
                   /\ UNCHANGED <<run_pc, data_files, sub_links>>
              ELSE /\ \E n \in 0..MaxLinks : sub_links' = [l \in 1..n |-> l]
                   /\ data_files' = IF ret.status = 200 /\ ret.text # ""
                                    THEN data_files \cup {"subscription_links.json"}
                                    ELSE data_files
                   /\ run_pc' = "channels"
                   /\ UNCHANGED run_end
    /\ UNCHANGED <<out_files, found, http_result>>
    /\ UNCHANGED notRun

\* _get_telegram_channels: no file gives []; json.loads of the file is not
\* guarded, and its exception leaves run.
GetTelegramChannels ==
    /\ run_end = "running" /\ run_pc = "channels"
    /\ \E outcome \in {"list", "JSONDecodeError"} :
          IF outcome = "list"
          THEN run_pc' = "scrape" /\ UNCHANGED run_end
          ELSE run_end' = "raised" /\ UNCHANGED run_pc
    /\ UNCHANGED <<data_files, out_files, sub_links, found, http_result>>
    /\ UNCHANGED notRun

\* tg_scraper.scrape_all: the report is written at its end.
ScrapeAll ==
    /\ run_end = "running" /\ run_pc = "scrape"
    /\ \E tokens \in BOOLEAN : found' = IF tokens THEN {"telegram"} ELSE {}
    /\ data_files' = data_files \cup {"telegram_report.log"}
    /\ run_pc' = "fetch"
    /\ UNCHANGED <<run_end, out_files, sub_links, http_result>>
    /\ UNCHANGED notRun

\* if CONFIG.ENABLE_SUBSCRIPTION_FETCHING: fetch_all creates one task per
\* link.
StartFetch ==
    /\ run_end = "running" /\ run_pc = "fetch"
    /\ IF ENABLE_SUBSCRIPTION_FETCHING
       THEN /\ http_result' = [l \in DOMAIN sub_links |-> Pending]
            /\ run_pc' = "fetching"
       ELSE /\ run_pc' = "merge"
            /\ UNCHANGED http_result
    /\ UNCHANGED <<run_end, data_files, out_files, sub_links, found>>
    /\ UNCHANGED notRun

\* One task of fetch_all ends and the loop over as_completed takes its
\* content.
FetchLink(l) ==
    /\ run_end = "running" /\ run_pc = "fetching"
    /\ l \in DOMAIN http_result
    /\ http_result[l] = Pending
    /\ \E event \in HttpEvents :
          LET content == _fetch_link(get(event))
          IN  /\ http_result' = [http_result EXCEPT ![l] =
                                    [kind |-> "done", event |-> event, ret |-> get(event),
                                     content |-> content]]
              /\ found' = IF content = "tokens" THEN found \cup {"subscriptions"} ELSE found
    /\ UNCHANGED <<run_pc, run_end, data_files, out_files, sub_links>>
    /\ UNCHANGED notRun

\* as_completed is exhausted.
FetchDone ==
    /\ run_end = "running" /\ run_pc = "fetching"
    /\ \A l \in DOMAIN http_result : http_result[l] # Pending
    /\ run_pc' = "merge"
    /\ UNCHANGED <<run_end, data_files, out_files, sub_links, found, http_result>>
    /\ UNCHANGED notRun

\* A merge that writes the lists of an empty result before it returns.
MergeSavesEmpty ==
    /\ run_end = "running" /\ run_pc = "merge"
    /\ IF found = {}
       THEN /\ run_end' = "returned"
            /\ out_files' = out_files \cup {"subscribe/base64.txt", "all_configs.txt"}
            /\ UNCHANGED run_pc
       ELSE /\ run_pc' = "process"
            /\ UNCHANGED <<run_end, out_files>>
    /\ UNCHANGED <<data_files, sub_links, found, http_result>>
    /\ UNCHANGED notRun

\* if not any(all_raw.values()): return
Merge ==
    /\ run_end = "running" /\ run_pc = "merge"
    /\ IF found = {}
       THEN run_end' = "returned" /\ UNCHANGED run_pc
       ELSE run_pc' = "process" /\ UNCHANGED run_end
    /\ UNCHANGED <<data_files, out_files, sub_links, found, http_result>>
    /\ UNCHANGED notRun

\* processor.process: decoding, deduplication and sampling, then
\* _enrich_data creates one resolve task per host.
StartEnrich ==
    /\ run_end = "running" /\ run_pc = "process"
    /\ dpc' = [h \in { RunHost(c) : c \in RunRecords } |-> "start"]
    /\ dns_found' = [h \in { RunHost(c) : c \in RunRecords } |-> None]
    /\ dns_result' = [h \in { RunHost(c) : c \in RunRecords } |-> None]
    /\ run_pc' = "enrich"
    /\ UNCHANGED <<dns_lock, dns_cache>>
    /\ UNCHANGED <<run_end, data_files, out_files, sub_links, found, http_result>>
    /\ UNCHANGED <<pipeVars, probeVars, tgVars, exVars, codecVars, fetchVars>>

\* A step of a resolve task.
RunDns == run_end = "running" /\ run_pc = "enrich" /\ NextDns

\* The gather of _enrich_data returns; with testing, _test_connectivity
\* creates one worker per record.
EnrichDone ==
    /\ run_end = "running" /\ run_pc = "enrich"
    /\ \A h \in DOMAIN dpc : dpc[h] = "done"
    /\ IF enable_test
       THEN /\ wpc' = [c \in RunRecords |-> "waiting"]
            /\ sem' = SEM_PERMITS
            /\ tcp_result' = [c \in RunRecords |-> None]
            /\ run_pc' = "probe"
       ELSE /\ run_pc' = "format"
            /\ UNCHANGED probeVars
    /\ UNCHANGED <<run_end, data_files, out_files, sub_links, found, http_result>>
    /\ UNCHANGED <<pipeVars, dnsVars, tgVars, exVars, codecVars, fetchVars>>

\* A step of a worker.
RunProbe == run_end = "running" /\ run_pc = "probe" /\ NextProbe

\* The gather of _test_connectivity returns.
ProbesDone ==
    /\ run_end = "running" /\ run_pc = "probe"
    /\ \A c \in DOMAIN wpc : wpc[c] = "done"
    /\ run_pc' = "format"
    /\ UNCHANGED <<run_end, data_files, out_files, sub_links, found, http_result>>
    /\ UNCHANGED notRun

\* _format_remarks, then final_configs = processor.get_results()
FormatAndOrder ==
    /\ run_end = "running" /\ run_pc = "format"
    /\ run_pc' = "save"
    /\ UNCHANGED <<run_end, data_files, out_files, sub_links, found, http_result>>
    /\ UNCHANGED notRun

\* The next save_text call of _save_outputs; after the last one
\* _save_outputs returns.
SaveText ==
    /\ run_end = "running" /\ run_pc = "save"
    /\ LET n == Cardinality(out_files)
       IN  /\ out_files' = out_files \cup {SaveOrder[n + 1]}
           /\ run_pc' = IF n + 1 = Len(SaveOrder) THEN "summary" ELSE "save"
    /\ UNCHANGED <<run_end, data_files, sub_links, found, http_result>>
    /\ UNCHANGED notRun

\* _print_summary, AsyncHttpClient.close, Geolocation.close
Summary ==
    /\ run_end = "running" /\ run_pc = "summary"
    /\ run_pc' = "closed"
    /\ run_end' = "finished"
    /\ UNCHANGED <<data_files, out_files, sub_links, found, http_result>>
    /\ UNCHANGED notRun

\* The process is interrupted while run is suspended: the exception leaves
\* asyncio.run and is caught by `except KeyboardInterrupt`.
Interrupt ==
    /\ run_end = "running"
    /\ run_end' = "interrupted"
    /\ UNCHANGED <<run_pc, data_files, out_files, sub_links, found, http_result>>
    /\ UNCHANGED notRun

InitRun ==
    /\ IdleProbe /\ IdleDns /\ IdleTg /\ IdleEx /\ IdleCodec /\ IdleFetch
    /\ enable_test \in BOOLEAN
    /\ parsed_configs = << >>
    /\ unique_configs = << >>
    /\ stage = "idle"
    /\ shuffled = << >>
    /\ results = << >>
    /\ run_pc = "assets"
    /\ run_end = "running"
    /\ data_files = {}
    /\ out_files = {}
    /\ sub_links = << >>
    /\ found = {}
    /\ http_result = << >>

NextRun ==
    \/ DownloadAssets
    \/ GetSubscriptionLinks
    \/ GetTelegramChannels
    \/ ScrapeAll
    \/ StartFetch
    \/ \E l \in 1..MaxLinks : FetchLink(l)
    \/ FetchDone
    \/ Merge
    \/ StartEnrich
    \/ RunDns
    \/ EnrichDone
    \/ RunProbe
    \/ ProbesDone
    \/ FormatAndOrder
    \/ SaveText
    \/ Summary
    \/ Interrupt

SpecRun == InitRun /\ [][NextRun]_vars

\* The positions of run behind the fetch, the enrichment and the probes.
AfterFetch == {"merge", "process", "enrich", "probe", "format", "save", "summary", "closed"}
AfterEnrich == {"probe", "format", "save", "summary", "closed"}
AfterProbe == {"format", "save", "summary", "closed"}

C12_OutputAfterPipeline ==
    out_files # {} => run_pc \in {"save", "summary", "closed"}

\* A run interrupted inside the probes, after a probe has returned: it has
\* written data files and no output file.
C12_Witness ==
    /\ run_end = "interrupted"
    /\ run_pc = "probe"
    /\ \E c \in DOMAIN wpc : wpc[c] = "done"
    /\ "telegram_report.log" \in data_files
    /\ out_files = {}

(***************************************************************************)
(* What each stage of the pipeline writes.                                 *)
(***************************************************************************)
\* The fields the stage that runs at a position of process may write.
StageWrites ==
    CASE stage = "sampled" -> {"ip_address", "country", "asn_org"}
      [] stage = "enriched" /\ enable_test -> {"ping"}
      [] stage = "enriched" /\ ~enable_test -> {"remarks"}
      [] stage = "tested" -> {"remarks"}
      [] OTHER -> {}

\* C22: no step of the pipeline changes the protocol, host, port or
\* identifier of a decoded object: enrichment changes only ip_address,
\* country and asn_org, probing only ping, formatting only remarks, and
\* deduplication, sampling and ordering change no field.
C22_IdentityFrame ==
    [][ /\ DOMAIN parsed_configs' = DOMAIN parsed_configs
        /\ \A i \in DOMAIN parsed_configs :
              /\ IdentityOf(parsed_configs'[i]) = IdentityOf(parsed_configs[i])
              /\ \A f \in DOMAIN parsed_configs[i] :
                    parsed_configs'[i][f] # parsed_configs[i][f] => f \in StageWrites
      ]_vars

\* An object of the final list that enrichment, probing and formatting have
\* all written to.
C22_Witness ==
    /\ stage = "done"
    /\ enable_test
    /\ \E n \in 1..Len(results) :
          /\ Obj(results[n]).ip_address # None
          /\ Obj(results[n]).country # "XX"
          /\ Obj(results[n]).ping # None
          /\ Obj(results[n]).remarks = FormattedRemarks(Obj(results[n]))

(***************************************************************************)
(* The order of the stages, and what sampling leaves out.                  *)
(***************************************************************************)
\* The steps of process and get_results in their order.
StageOrder ==
    {<<"parsed", "deduped">>, <<"deduped", "sampled">>, <<"sampled", "enriched">>,
     <<"tested", "processed">>, <<"processed", "done">>}
    \cup (IF enable_test THEN {<<"enriched", "tested">>} ELSE {<<"enriched", "processed">>})

\* C23: every step of the pipeline is the next stage of the order dedup,
\* sample, enrich, probe (with testing), format, order, so each stage runs
\* once; the lookups of the enrichment are issued for the hosts of the
\* objects the map holds after sampling and for no other host, the probes
\* for those objects and no other, and an object outside the map is never
\* written to.
C23_StagesInOrder ==
    [][ /\ <<stage, stage'>> \in StageOrder
        /\ stage' = "enriched" =>
              DOMAIN dns_result' = { parsed_configs[i].host : i \in Range(unique_configs) }
        /\ stage' = "tested" => DOMAIN tcp_result' = Range(unique_configs)
        /\ stage' \notin {"enriched", "tested"} => UNCHANGED <<dns_result, tcp_result>>
        /\ \A i \in DOMAIN parsed_configs :
              i \notin Range(unique_configs) => parsed_configs'[i] = parsed_configs[i]
      ]_vars

\* Sampling applied and the run is over: an object that sampling left out
\* has no address and no ping, and its host was not looked up.
C23_Witness ==
    /\ stage = "done"
    /\ enable_test
    /\ Cardinality(DOMAIN DedupMap(parsed_configs)) > MAX_CONNECTIVITY_TESTS
    /\ Len(results) >= 1
    /\ \E i \in Range(DedupMap(parsed_configs)) :
          /\ Obj(i).host \notin DOMAIN dns_result
          /\ i \notin DOMAIN tcp_result
          /\ Obj(i).ip_address = None

\* C24: with connectivity testing disabled the list get_results returns is
\* a permutation of the deduped map: it holds every object of the map once
\* and nothing else.
C24_PermutationWithoutTesting ==
    (stage = "done" /\ ~enable_test) =>
        /\ Range(results) = Range(DedupMap(parsed_configs))
        /\ Len(results) = Cardinality(DOMAIN DedupMap(parsed_configs))

\* Without testing a list longer than MAX_CONNECTIVITY_TESTS is returned, in
\* another order than the objects were decoded in.
C24_Witness ==
    /\ stage = "done"
    /\ ~enable_test
    /\ Len(results) > MAX_CONNECTIVITY_TESTS
    /\ \E a, b \in 1..Len(results) : a < b /\ results[a] > results[b]

(***************************************************************************)
(* Deduplication keys of objects with different identities.                *)
(***************************************************************************)
\* C29: two decoded objects that differ in protocol, host, port or
\* identifier have different deduplication keys, and after the dedup step
\* the map holds an object of each of the two identities.
C29_DistinctIdentitiesKept ==
    stage = "deduped" =>
        \A i, j \in DOMAIN parsed_configs :
            IdentityOf(Obj(i)) # IdentityOf(Obj(j)) =>
                /\ get_deduplication_key(Obj(i)) # get_deduplication_key(Obj(j))
                /\ \E k \in DOMAIN unique_configs :
                      IdentityOf(Obj(unique_configs[k])) = IdentityOf(Obj(i))

(***************************************************************************)
(* Requests, batches and lists of the Telegram scraper.                    *)
(***************************************************************************)
\* The batch of a channel, counted from 0.
BatchOf(ch) == (ch - 1) \div BATCH_SIZE

\* The channels whose task has been created and has not returned.
Fetching == { ch \in DOMAIN tpc : tpc[ch] \in {"get", "sleep"} }

\* C25: a channel issues at most two GETs, the second only after the first
\* was unsuccessful; when the task of a channel has been created every
\* channel of an earlier batch has returned; and at most BATCH_SIZE channel
\* fetches run at the same time.
C25_RequestsBounded ==
    /\ \A ch \in DOMAIN tg_log :
          /\ Len(tg_log[ch]) <= 2
          /\ Len(tg_log[ch]) = 2 => tg_log[ch][1] = Unsuccessful
          /\ tpc[ch] = "new" => tg_log[ch] = << >>
    /\ \A ch, before \in DOMAIN tpc :
          (tpc[ch] # "new" /\ BatchOf(before) < BatchOf(ch)) => tpc[before] = "returned"
    /\ Cardinality(Fetching) <= BATCH_SIZE

\* A channel of a later batch is inside its second GET, after a channel of
\* an earlier batch used both of its GETs.
C25_Witness ==
    \E ch, before \in DOMAIN tpc :
        /\ BatchOf(before) < BatchOf(ch)
        /\ tpc[ch] = "get"
        /\ Len(tg_log[ch]) = 1
        /\ Len(tg_log[before]) = 2

\* C26: the number of tokens a channel returns never exceeds
\* MAX_CONFIGS_PER_CHANNEL.
C26_ChannelCapHolds ==
    \A ch \in DOMAIN tg_res :
        tg_res[ch] # None => tg_res[ch][1] <= MAX_CONFIGS_PER_CHANNEL

\* C27: when scrape_all has ended every channel is in exactly one of the
\* success list and the failure list, once; the two lengths add up to the
\* number of channels; every entry of the success list has a count greater
\* than 0, which is the number of tokens stored for its channel.
C27_ListsPartitionChannels ==
    tg_pc = "done" =>
        /\ Len(successful_channels) + Len(failed_channels) = NumChannels
        /\ \A ch \in Channels :
              Cardinality({ n \in DOMAIN successful_channels : successful_channels[n][1] = ch })
              + Cardinality({ n \in DOMAIN failed_channels : failed_channels[n] = ch }) = 1
        /\ \A n \in DOMAIN successful_channels :
              /\ successful_channels[n][2] > 0
              /\ successful_channels[n][1] \in DOMAIN configs_by_channel
              /\ configs_by_channel[successful_channels[n][1]] = successful_channels[n][2]

\* scrape_all has ended with a channel in each list, and one channel of the
\* failure list returned the empty dict.
C27_Witness ==
    /\ tg_pc = "done"
    /\ successful_channels # << >>
    /\ \E n \in DOMAIN failed_channels : tg_res[failed_channels[n]] = Some(0)
    /\ \E n \in DOMAIN failed_channels : tg_res[failed_channels[n]] = None

(***************************************************************************)
(* SubscriptionFetcher.fetch_all over given bodies, followed by the        *)
(* parsing and the deduplication of ConfigProcessor.process.               *)
(***************************************************************************)
\* The scheme marker _fetch_link looks for.
SchemeMarker == <<":", "/", "/">>

\* content[:50]
First50(content) == SubSeq(content, 1, IF Len(content) < 50 THEN Len(content) ELSE 50)

\* _fetch_link behind the call of get: `if not content: return ""`, then
\* the body goes through b64_decode when its first 50 characters hold no
\* "://" and it is longer than 20 characters.  b64_decode has its own
\* handler and returns "" for a text it cannot decode, so the `except: pass`
\* around it never runs.
FetchedContent(content) ==
    IF content = << >> THEN << >>
    ELSE IF ~Contains(First50(content), SchemeMarker) /\ Len(content) > 20
         THEN b64_decode(content)
         ELSE content

\* The bodies of the model: plain lists, a list under base64, a short text,
\* and plain lists behind a comment line that puts the first "://" at the
\* characters 48..50, 49..51 and beyond.
PlainBody == <<"v", "l", "e", "s", "s", ":", "/", "/", "u", "@", "h", ":", "4", "4", "3", "?", "t", "y", "p", "e", "=", "w", "s", "\n">>
OtherPlainBody == <<"v", "l", "e", "s", "s", ":", "/", "/", "u", "@", "h", ":", "4", "4", "3", "?", "s", "e", "c", "u", "r", "i", "t", "y", "=", "t", "l", "s", "\n", "s", "s", ":", "/", "/", "b", "T", "p", "w", "@", "h", ":", "1", "\n">>
EncodedBody == <<"d", "m", "x", "l", "c", "3", "M", "6", "L", "y", "9", "1", "Q", "G", "g", "6", "N", "D", "Q", "z", "P", "3", "R", "5", "c", "G", "U", "9", "Z", "3", "J", "w", "Y", "w", "p", "z", "c", "z", "o", "v", "L", "2", "J", "U", "c", "H", "d", "A", "a", "D", "o", "x", "C", "g", "=", "=">>
ShortBody == <<"n", "o", " ", "p", "r", "o", "x", "i", "e", "s", " ", "t", "o", "d", "a", "y">>
MarkerAt48Body == <<"#", " ", "f", "r", "e", "e", " ", "p", "r", "o", "x", "i", "e", "s", ",", " ", "u", "p", "d", "a", "t", "e", "d", " ", "d", "a", "i", "l", "y", " ", "-", "-", " ", "m", "i", "r", "r", "o", "r", " ", "n", "o", " ", "1", "\n", "s", "s", ":", "/", "/", "b", "T", "p", "w", "@", "h", ":", "1", "\n">>
MarkerAt49Body == <<"#", " ", "f", "r", "e", "e", " ", "p", "r", "o", "x", "i", "e", "s", ",", " ", "u", "p", "d", "a", "t", "e", "d", " ", "d", "a", "i", "l", "y", " ", "-", "-", " ", "m", "i", "r", "r", "o", "r", " ", "n", "o", " ", "1", "1", "\n", "s", "s", ":", "/", "/", "b", "T", "p", "w", "@", "h", ":", "1", "\n">>
LateMarkerBody == <<"#", " ", "f", "r", "e", "e", " ", "p", "r", "o", "x", "i", "e", "s", ",", " ", "u", "p", "d", "a", "t", "e", "d", " ", "d", "a", "i", "l", "y", ";", " ", "s", "h", "a", "r", "e", " ", "t", "h", "i", "s", " ", "l", "i", "s", "t", " ", "f", "r", "e", "e", "l", "y", "\n", "v", "l", "e", "s", "s", ":", "/", "/", "u", "@", "h", ":", "4", "4", "3", "?", "t", "y", "p", "e", "=", "w", "s", "\n">>

Bodies == {<< >>, PlainBody, OtherPlainBody, EncodedBody, ShortBody, MarkerAt48Body, MarkerAt49Body, LateMarkerBody}

\* A dict in insertion order: its keys in that order, and the value of each.
EmptyDict == [keys |-> << >>, value |-> << >>]

\* The names of PATTERNS that are keys of found_tokens and not yet of d, in
\* the order of PATTERNS (the order of the dict find_all builds).
NewKeys(d, found_tokens) ==
    SelectSeq(PatternNames, LAMBDA k : k \in DOMAIN found_tokens /\ k \notin Range(d.keys))

\* for k, v in found.items(): self.total_configs_by_type[k].extend(v) on a
\* defaultdict(list): a new key goes behind the keys the dict has.
ExtendAll(d, found_tokens) ==
    [keys |-> d.keys \o NewKeys(d, found_tokens),
     value |-> [k \in Range(d.keys) \cup DOMAIN found_tokens |->
                   (IF k \in Range(d.keys) THEN d.value[k] ELSE << >>)
                   \o (IF k \in DOMAIN found_tokens THEN found_tokens[k] ELSE << >>)]]

\* The body of the loop over as_completed for one content:
\* `if content: found = find_all(content); ...`.
Collected(d, content) ==
    IF content = << >> THEN d
    ELSE CHOOSE after \in { ExtendAll(d, found_tokens) : found_tokens \in {find_all(content)} } : TRUE

\* [obj for link in links if (obj := V2RayParser.parse(link, proto))]
RECURSIVE ParsedLinks(_)
ParsedLinks(links) ==
    IF links = << >> THEN << >>
    ELSE IF parse(Head(links)).kind = "config"
         THEN <<parse(Head(links)).config>> \o ParsedLinks(Tail(links))
         ELSE ParsedLinks(Tail(links))

\* process, lines 620-623: the objects decoded from the lists of the first
\* n keys of raw_configs.
RECURSIVE ParsedConfigs(_, _)
ParsedConfigs(d, n) ==
    IF n = 0 THEN << >>
    ELSE ParsedConfigs(d, n - 1) \o ParsedLinks(d.value[d.keys[n]])

\* The identity fields of the decoded objects, as text.
Identities(objs) ==
    [i \in DOMAIN objs |->
        [protocol |-> objs[i].protocol, host |-> Flat(objs[i].host),
         port |-> objs[i].port, uuid |-> Flat(objs[i].uuid)]]

\* process, lines 626-628: the dict of the decoded objects under their keys.
Deduplicated(objs) ==
    [k \in DOMAIN DedupMap(Identities(objs)) |-> objs[DedupMap(Identities(objs))[k]]]

\* unique_configs of a processor that is given the dict d.
UniqueConfigs(d) ==
    CHOOSE unique \in { Deduplicated(objs) : objs \in {ParsedConfigs(d, Len(d.keys))} } : TRUE

\* total_configs_by_type after the tasks completed in the given order.
RECURSIVE TotalAfter(_, _)
TotalAfter(order, n) ==
    IF n = 0 THEN EmptyDict
    ELSE CHOOSE after \in { Collected(before, content) :
                              before \in {TotalAfter(order, n - 1)},
                              content \in {FetchedContent(link_body[order[n]])} } : TRUE

\* One task ends and the loop over as_completed takes its content.
CompleteLink(l) ==
    /\ fetch_pc = "fetching"
    /\ link_content[l] = None
    /\ \E content \in {FetchedContent(link_body[l])} :
          /\ link_content' = [link_content EXCEPT ![l] = Some(content)]
          /\ total_configs_by_type' = Collected(total_configs_by_type, content)
    /\ UNCHANGED <<fetch_pc, link_body, fetched_unique>>
    /\ UNCHANGED notFetch

\* as_completed is exhausted; run hands the lists to the processor, which
\* decodes and deduplicates.
ProcessFetched ==
    /\ fetch_pc = "fetching"
    /\ \A l \in DOMAIN link_content : link_content[l] # None
    /\ fetched_unique' = Some(UniqueConfigs(total_configs_by_type))
    /\ fetch_pc' = "processed"
    /\ UNCHANGED <<link_body, link_content, total_configs_by_type>>
    /\ UNCHANGED notFetch

InitFetch ==
    /\ IdlePipeline /\ IdleProbe /\ IdleDns /\ IdleTg /\ IdleEx /\ IdleCodec /\ IdleRun
    /\ fetch_pc = "fetching"
    /\ \E n \in 1..MaxLinks : link_body \in [1..n -> Bodies]
    /\ link_content = [l \in DOMAIN link_body |-> None]
    /\ total_configs_by_type = EmptyDict
    /\ fetched_unique = None

NextFetch ==
    \/ \E l \in DOMAIN link_body : CompleteLink(l)
    \/ ProcessFetched

SpecFetch == InitFetch /\ [][NextFetch]_vars

\* b64_decode gave a text: the decoding did not fail.
Decodes(content) ==
    /\ urlsafe_b64decode(Padded(strip(content))).ok
    /\ Utf8Decode(urlsafe_b64decode(Padded(strip(content))).bytes).ok

\* C30: a body with "://" in its first 50 characters, or of at most 20
\* characters, is handed on as it is; any other body is handed on decoded
\* when the base64 decoding succeeds and as it is when the decoding fails.
C30_UndecodableBodyKept ==
    \A l \in DOMAIN link_content :
        link_content[l] # None =>
            IF Contains(First50(link_body[l]), SchemeMarker) \/ Len(link_body[l]) <= 20
            THEN link_content[l][1] = link_body[l]
            ELSE IF Decodes(link_body[l])
                 THEN link_content[l][1] = b64_decode(link_body[l])
                 ELSE link_content[l][1] = link_body[l]

\* C21: the deduplicated records do not depend on the order in which the
\* fetches completed: every completion order of the same bodies gives the
\* keys and the records this run ended with.
C21_CompletionOrderIrrelevant ==
    fetch_pc = "processed" =>
        \A order \in Shuffles(DOMAIN link_body) :
            UniqueConfigs(TotalAfter(order, Len(order))) = fetched_unique[1]


(***************************************************************************)
(* ConfigProcessor._enrich_data task by task: deduplication and sampling   *)
(* as in process, then one resolve task per host of the remaining objects, *)
(* then the loop that writes the addresses.  The stage is "resolving"      *)
(* while the gather of the tasks is awaited.                               *)
(***************************************************************************)
\* hosts = {...}; tasks = [DNSResolver.resolve(h) for h in hosts]
StartResolve ==
    /\ stage = "sampled"
    /\ dpc' = [h \in HostsToResolve |-> "start"]
    /\ dns_found' = [h \in HostsToResolve |-> None]
    /\ dns_result' = [h \in HostsToResolve |-> None]
    /\ stage' = "resolving"
    /\ UNCHANGED <<dns_lock, dns_cache>>
    /\ UNCHANGED <<enable_test, parsed_configs, unique_configs, shuffled, results>>
    /\ UNCHANGED <<probeVars, tgVars, exVars, codecVars, runVars, fetchVars>>

\* A step of a resolve task while gather waits.
ResolveStep == stage = "resolving" /\ NextDns

\* gather returned: dns_map = dict(zip(hosts, results)), then for every
\* remaining object c.ip_address = dns_map.get(c.host) and, with an address,
\* the country and the organization.
AssignAddresses ==
    /\ stage = "resolving"
    /\ \A h \in DOMAIN dpc : dpc[h] = "done"
    /\ parsed_configs' =
          [i \in DOMAIN parsed_configs |->
              IF i \in Range(unique_configs)
              THEN EnrichOne(parsed_configs[i], dns_result)
              ELSE parsed_configs[i]]
    /\ stage' = "enriched"
    /\ UNCHANGED <<enable_test, unique_configs, shuffled, results>>
    /\ UNCHANGED <<dnsVars, probeVars, tgVars, exVars, codecVars, runVars, fetchVars>>

InitEnrich == InitPipeline

NextEnrich ==
    \/ Dedup
    \/ Sample
    \/ StartResolve
    \/ ResolveStep
    \/ AssignAddresses

SpecEnrich == InitEnrich /\ [][NextEnrich]_vars

\* The positions of a resolve task behind the call of getaddrinfo.
LookupIssued == {"lookup", "found", "writing", "done"}

\* C31: in one run of _enrich_data there is one resolve task per distinct
\* host of the remaining objects and a task calls getaddrinfo at most once
\* (it enters the lookup from before it and never goes back before it); the
\* task of a literal IP address never enters the lookup; and after the
\* enrichment two remaining objects with the same host have the same
\* ip_address.
C31_OneLookupPerHost ==
    /\ [](stage = "resolving" => DOMAIN dpc = HostsToResolve)
    /\ [][\A h \in DOMAIN dpc \cap DOMAIN dpc' :
            /\ (dpc'[h] = "lookup" /\ dpc[h] # "lookup") => dpc[h] \in {"start", "reading"}
            /\ (dpc[h] \in LookupIssued /\ dpc[h] # "done") => dpc'[h] \in LookupIssued
            /\ (dpc[h] = "done" /\ stage' = "resolving") => dpc'[h] = "done"
            /\ is_ip_address(h) => dpc'[h] # "lookup"]_vars
    /\ [](stage = "enriched" =>
            \A i, j \in Range(unique_configs) :
                parsed_configs[i].host = parsed_configs[j].host
                => parsed_configs[i].ip_address = parsed_configs[j].ip_address)

\* Two remaining objects share a host that was looked up once, a third has
\* a literal address that was not looked up, and the addresses are written.
C31_Witness ==
    /\ stage = "enriched"
    /\ \E i, j \in Range(unique_configs) :
          /\ i # j
          /\ parsed_configs[i].host = parsed_configs[j].host
          /\ ~is_ip_address(parsed_configs[i].host)
          /\ dns_found[parsed_configs[i].host] # None
          /\ parsed_configs[i].ip_address = dns_found[parsed_configs[i].host]
          /\ parsed_configs[j].ip_address = dns_found[parsed_configs[i].host]
    /\ \E i \in Range(unique_configs) :
          /\ is_ip_address(parsed_configs[i].host)
          /\ dns_found[parsed_configs[i].host] = None
          /\ parsed_configs[i].ip_address = Some(parsed_configs[i].host)


\* AsyncHttpClient._client exists and is not closed: get_client has created
\* it (the first call of get behind _download_assets is the one of
\* _get_subscription_links, which is made in every run), and the close of
\* line 960 has not run.
ClientOpen == run_pc \notin {"assets", "links", "closed"}

\* C32: when run has ended by completing, by the early return for an empty
\* result or by an exception of a stage, AsyncHttpClient.close and
\* Geolocation.close have run: the shared client is not left open.
C32_ClosedAtRunEnd ==
    run_end \in {"finished", "returned", "raised"} => ~ClientOpen


\* The URI with the letters before its first "://" in lower case.
LowerScheme(uri) ==
    IF \E p \in 1..Len(uri) : HasAt(uri, p, SchemeMarker)
    THEN LET p == CHOOSE x \in 1..Len(uri) :
                      HasAt(uri, x, SchemeMarker) /\ \A y \in 1..(x - 1) : ~HasAt(uri, y, SchemeMarker)
         IN  [i \in 1..Len(uri) |-> IF i < p THEN lower(uri[i]) ELSE uri[i]]
    ELSE uri

\* find_all returns the URI, as it is written, from a line that holds it.
Extracted(uri) ==
    \E k \in DOMAIN find_all(uri \o <<"\n">>) :
        \E n \in DOMAIN find_all(uri \o <<"\n">>)[k] : find_all(uri \o <<"\n">>)[k][n] = uri

\* C33: a URI whose scheme is written in upper or mixed case, which find_all
\* returns and which is well formed (with the scheme in lower case parse
\* decodes it), is decoded into a record by parse.
C33_SchemeCaseIgnored ==
    (/\ codec_pc \in {"decoded", "encoded", "redecoded"}
     /\ raw_uri # LowerScheme(raw_uri)
     /\ parse(LowerScheme(raw_uri)).kind = "config"
     /\ Extracted(raw_uri))
    => decoded.kind = "config"

=============================================================================
